---- MODULE Spec2Model ----
(***************************************************************************)
(* A model of gls: the reconciliation of a remote GitLab group tree with   *)
(* a local directory tree.                                                 *)
(*                                                                         *)
(*   Spec      main() of the gls.Task variant: createTasks, FilterTasks    *)
(*             and the worker pool gls.RunTasks (pkg/gls/task.go).         *)
(*   SpecExec  main() of cmd/main.go: createTasks with the confirmation    *)
(*             prompt and the worker pool executeTasks.                    *)
(*   SpecWalk  the remote tree walker GetActiveGitlabProjects with its     *)
(*             producer goroutines, collectors and channels                *)
(*             (pkg/gitlab/gitlab.go).                                     *)
(***************************************************************************)
EXTENDS Integers, Sequences, FiniteSets, TLC

(***************************************************************************)
(* Bounds of the model.                                                    *)
(***************************************************************************)
\* the worker counts tried are 0..MaxWorkers
MaxWorkers == 2
\* progress lines an action reports at most
MaxLines == 1
\* groups of the remote tree: 0 (the root) .. MaxGroup
MaxGroup == 2
\* longest list of descriptors createTasks is tried on by itself
MaxList == 2
\* entries of the local directory tree: 0 (the scan root) .. MaxDir
MaxDir == 3
\* bytes written to a LineWriter in all, and calls of Write, at most
MaxBytes == 3

(***************************************************************************)
(* Values.                                                                 *)
(***************************************************************************)
Nil == "nil"

\* pkg/gls/task.go: Action and Status
Clone == "clone"
Pull == "pull"
Delete == "delete"
Open == "open"
Progressing == "progressing"
Completed == "completed"

\* the errors a clone, pull or delete can return (Nil: success)
ErrFailed == "exit status 1"
WorkResults == {Nil, ErrFailed}

\* the lines git reports while it clones or pulls
ProgressLines == {"Receiving objects"}

Branches == {"main", "hotfix"}
PathNames == {"teamA/svc1", "teamA/svc2", "teamA/old"}
PathOrder == <<"teamA/svc1", "teamA/svc2", "teamA/old">>

Workers == 1..MaxWorkers

VARIABLES
  \* ---- main(): inputs and tasks
  variant,         \* which main package runs: "gls" (gls.Task, RunTasks) or "cmd" (cmd/main.go)
  localPath,       \* cfg.Path.Local
  gitlabProjects,  \* result of GetActiveGitlabProjects: seq of [Path, DefaultBranch, CloneUrl]
  localProjects,   \* result of GetLocalProjects: seq of [Path, Branch]
  mainErr,         \* main's err: NilPtr, or what the last discovery call returned
  confirm,         \* the answers askForConfirmation gave, by path
  numWorkers,      \* the worker count handed to the pool
  tasks,           \* seq of the tasks' immutable fields
  status,          \* task index -> Status       (atomic)
  message,         \* task index -> string       (atomic)
  error,           \* task index -> error or Nil (atomic)
  tracker,         \* task index -> the numbers of its progress.Tracker (cmd/main.go)
  openTasks,       \* the list handed to the pool: seq of task indices
  mpc,             \* where main() is
  \* ---- the pool
  spawned,         \* workers started so far (the loop variable i - 1)
  loaded,          \* tasks sent to taskQueue so far
  taskQueue,       \* the buffered channel: seq of task indices
  closed,          \* close(taskQueue) has happened
  wg,              \* the WaitGroup counter
  wpc,             \* worker -> where it is
  wtask,           \* worker -> the task it holds (0: none)
  wret,            \* worker -> what work(task) returned
  wlines,          \* worker -> progress lines reported in the current call
  \* ---- history of the run (not read by the program)
  initial,         \* task index -> status, message and error the task was created with
  dequeued,        \* task index -> times received from taskQueue
  invoked,         \* task index -> times the work function was called
  returned,        \* task index -> what its last work call returned ("none": no return yet)
  errWrites,       \* task index -> times the error field was stored
  wasProgressing,  \* task indices that have been Progressing
  report,          \* the failure lines main() printed: seq of task indices
  \* ---- GetActiveGitlabProjects: the remote tree and the walk
  parent,          \* the group tree: parent[g] of every group but the root
  kinds,           \* per group, the kinds of the projects it owns
  gpc,             \* position of GetActiveGitlabProjects
  ppc,             \* per group, position of the goroutine listing its projects
  spc,             \* per group, position of the goroutine listing its subgroups
  plist,           \* per group, the listed projects not yet sent
  slist,           \* per group, the listed subgroups not yet walked
  pwg,             \* counter of the WaitGroup pwg
  cwg,             \* counter of the WaitGroup cwg
  resChan,         \* "none", "open" or "closed"
  errChan,         \* "none", "open" or "closed"
  closer,          \* position of the goroutine that closes the channels
  resCollector,    \* position of the goroutine ranging over resChan
  errCollector,    \* position of the goroutine ranging over errChan
  result,          \* var result []*Project
  errors,          \* var errors []error
  visited,         \* the groups progress() was called for, in call order
  failedP,         \* history: groups whose ListGroupProjects request failed
  failedS,         \* history: groups whose ListSubGroups request failed
  ret              \* what GetActiveGitlabProjects returned, <<>> before

pipeVars == <<variant, localPath, gitlabProjects, localProjects, mainErr, confirm,
              numWorkers, tasks, status, message, error, tracker, openTasks, mpc, spawned, loaded,
              taskQueue, closed, wg, wpc, wtask, wret, wlines, initial, dequeued, invoked,
              returned, errWrites, wasProgressing, report>>

walkVars == <<parent, kinds, gpc, ppc, spc, plist, slist, pwg, cwg, resChan, errChan,
              closer, resCollector, errCollector, result, errors, visited, failedP,
              failedS, ret>>

VARIABLES
  \* ---- GetLocalProjects: the directory tree and the walk of filepath.WalkDir
  fsParent,        \* entry -> the directory that holds it (the root 0 is localPath)
  fsKind,          \* entry -> "file", "dir", "locked", "repo" or "unborn"
  pending,         \* the entries WalkDir has still to visit, next first
  scanPc,          \* where the walk is: "none", "walkDirFn", "ReadDir", "returned"
  scanDir,         \* the entry the walk is at
  scanProjects,    \* var projects []*Project of GetLocalProjects
  scanErr,         \* the error GetLocalProjects returns (NilPtr: nil)
  calls            \* the calls of the callback so far: seq of <<entry, err>>

scanVars == <<fsParent, fsKind, pending, scanPc, scanDir, scanProjects, scanErr, calls>>

VARIABLES
  \* ---- gls.LineWriter
  lwBuf,           \* lw.buf: the bytes held between two calls of Write
  lwCalls,         \* the arguments lw.callback has been called with
  written          \* all bytes written so far, and how they came: seq of the p of each Write

lwVars == <<lwBuf, lwCalls, written>>

VARIABLES
  \* ---- git.DeleteProject
  removed          \* the entries of the directory tree that os.RemoveAll has removed

delVars == <<removed>>

VARIABLES
  \* ---- renderer: printProgressingTasksTable and the loop of FilterTasks
  renderIdx,        \* the task FilterTasks reads next (0: FilterTasks is not running)
  progressingTasks  \* var result of the running FilterTasks(tasks, gls.Progressing)

renderVars == <<renderIdx, progressingTasks>>

\* the variables of the parts that are neither main's pipeline nor the remote walker
sideVars == <<scanVars, lwVars, delVars, renderVars>>
besideScan == <<lwVars, delVars, renderVars>>
besideLine == <<scanVars, delVars, renderVars>>
besideDelete == <<lwVars, renderVars>>
besideRender == <<scanVars, lwVars, delVars>>

vars == <<pipeVars, walkVars, sideVars>>

(***************************************************************************)
(* Helpers on finite sequences.                                            *)
(***************************************************************************)
Range(s) == {s[i] : i \in DOMAIN s}

\* the subsequence of s whose elements satisfy Test, in order
RECURSIVE SelectIdx(_, _, _)
SelectIdx(s, keep, i) ==
  IF i > Len(s) THEN <<>>
  ELSE (IF s[i] \in keep THEN <<s[i]>> ELSE <<>>) \o SelectIdx(s, keep, i + 1)

\* all orders in which the elements of the finite set S can be listed
Orders(S) ==
  {s \in [1..Cardinality(S) -> S] : \A x \in S : \E i \in DOMAIN s : s[i] = x}

(***************************************************************************)
(* The descriptors and their pairing.                                      *)
(***************************************************************************)
\* gitlab.Project
GitlabProject(path, branch) ==
  [Path |-> path, DefaultBranch |-> branch, CloneUrl |-> "git@gitlab:" \o path \o ".git"]

\* git.Project
LocalProject(path, branch) == [Path |-> path, Branch |-> branch]

\* a Go pointer: NilPtr, or Ref(x) pointing to x
NilPtr == <<>>
Ref(x) == <<x>>
Deref(ptr) == ptr[1]

\* projectPairs[key] = pair: the map store of pairProjects
MapPut(m, key, pair) ==
  [k \in DOMAIN m \cup {key} |-> IF k = key THEN pair ELSE m[k]]

\* projectPairs[key], with the &ProjectPair{} the code makes of a nil entry
MapGet(m, key) ==
  IF key \in DOMAIN m THEN m[key] ELSE [GitlabProject |-> NilPtr, LocalProject |-> NilPtr]

\* the first loop of pairProjects, from project i of the remote list on
RECURSIVE pairGitlab(_, _, _)
pairGitlab(m, gl, i) ==
  IF i > Len(gl) THEN m
  ELSE pairGitlab(MapPut(m, gl[i].Path,
                         [MapGet(m, gl[i].Path) EXCEPT !.GitlabProject = Ref(gl[i])]),
                  gl, i + 1)

\* the second loop of pairProjects, from project i of the local list on
RECURSIVE pairLocal(_, _, _)
pairLocal(m, lp, i) ==
  IF i > Len(lp) THEN m
  ELSE pairLocal(MapPut(m, lp[i].Path,
                        [MapGet(m, lp[i].Path) EXCEPT !.LocalProject = Ref(lp[i])]),
                 lp, i + 1)

EmptyMap == [k \in {} |-> NilPtr]

\* pairProjects without its second loop: the local projects are not paired
pairProjectsRemoteOnly(gl, lp) == pairGitlab(EmptyMap, gl, 1)

pairProjects(gl, lp) == pairLocal(pairGitlab(EmptyMap, gl, 1), lp, 1)

(***************************************************************************)
(* Tasks (pkg/gls/task.go) and their creation (main package, gls.Task      *)
(* variant).                                                               *)
(***************************************************************************)
\* NewTask: the fields, the status stored, message and error at their zero values
NewTask(path, projectPair, taskLocalPath, branch, action, st) ==
  Ref([Path |-> path, ProjectPair |-> projectPair, LocalPath |-> taskLocalPath,
       Branch |-> branch, Action |-> action,
       status |-> st, message |-> "", error |-> Nil])

\* task.SetMessage(msg) on a task just made
WithMessage(task, msg) == Ref([Deref(task) EXCEPT !.message = msg])

\* the loop body of createTasks giving a Pull task the remote default branch
createTaskRemoteBranch(key, projectPair, lpath) ==
  LET remote == projectPair.GitlabProject
      local == projectPair.LocalProject
  IN IF remote # NilPtr /\ local # NilPtr
     THEN IF Deref(remote).DefaultBranch = Deref(local).Branch
          THEN NewTask(key, projectPair, lpath \o "/" \o Deref(local).Path,
                       Deref(remote).DefaultBranch, Pull, Open)
          ELSE WithMessage(NewTask(key, projectPair, lpath \o "/" \o Deref(local).Path,
                                   Deref(remote).DefaultBranch, Pull, Completed),
                           "Skipped, non default branch")
     ELSE IF remote # NilPtr /\ local = NilPtr
     THEN NewTask(key, projectPair, lpath \o "/" \o Deref(remote).Path,
                  Deref(remote).DefaultBranch, Clone, Open)
     ELSE IF remote = NilPtr /\ local # NilPtr
     THEN NewTask(key, projectPair, lpath \o "/" \o Deref(local).Path,
                  Deref(local).Branch, Delete, Open)
     ELSE NilPtr

\* the body of the loop of createTasks: the task of one pair of the map
createTask(key, projectPair, lpath) ==
  LET remote == projectPair.GitlabProject
      local == projectPair.LocalProject
  IN IF remote # NilPtr /\ local # NilPtr
     THEN IF Deref(remote).DefaultBranch = Deref(local).Branch
          THEN NewTask(key, projectPair, lpath \o "/" \o Deref(local).Path,
                       Deref(local).Branch, Pull, Open)
          ELSE WithMessage(NewTask(key, projectPair, lpath \o "/" \o Deref(local).Path,
                                   Deref(local).Branch, Pull, Completed),
                           "Skipped, non default branch")
     ELSE IF remote # NilPtr /\ local = NilPtr
     THEN NewTask(key, projectPair, lpath \o "/" \o Deref(remote).Path,
                  Deref(remote).DefaultBranch, Clone, Open)
     ELSE IF remote = NilPtr /\ local # NilPtr
     THEN NewTask(key, projectPair, lpath \o "/" \o Deref(local).Path,
                  Deref(local).Branch, Delete, Open)
     ELSE NilPtr

\* createTasks: one task per key of the map, in the order the map is ranged over
createTasks(gl, lp, lpath, order) ==
  [i \in 1..Len(order) |-> createTask(order[i], pairProjects(gl, lp)[order[i]], lpath)]

\* FilterTasks over task indices: those whose status is st, in list order
FilterTasks(ts, statusOf, st) ==
  SelectIdx(ts, {t \in Range(ts) : statusOf[t] = st}, 1)

(***************************************************************************)
(* The inputs tried: every pair of lists over the paths of SmallPaths in   *)
(* which a side lists a path at most once, and the three-project scenario  *)
(* of the README's group layout with either branch checked out locally.    *)
(***************************************************************************)
SmallPaths == {"teamA/svc1", "teamA/old"}

\* the remote lists over the paths of S, in PathOrder, with every choice of branches
RemoteLists(S) ==
  LET order == SelectIdx(PathOrder, S, 1)
  IN {[i \in 1..Len(order) |-> GitlabProject(order[i], b[order[i]])] : b \in [S -> Branches]}

\* the local lists over the paths of S, in PathOrder, with every choice of branches
LocalLists(S) ==
  LET order == SelectIdx(PathOrder, S, 1)
  IN {[i \in 1..Len(order) |-> LocalProject(order[i], b[order[i]])] : b \in [S -> Branches]}

RemoteInputs == UNION {RemoteLists(S) : S \in SUBSET SmallPaths}
LocalInputs == UNION {LocalLists(S) : S \in SUBSET SmallPaths}

ScenarioRemote ==
  <<GitlabProject("teamA/svc1", "main"), GitlabProject("teamA/svc2", "main")>>
ScenarioLocal ==
  {<<LocalProject("teamA/svc1", b), LocalProject("teamA/old", "main")>> : b \in Branches}

Inputs ==
  (RemoteInputs \X LocalInputs) \cup ({ScenarioRemote} \X ScenarioLocal)

TaskIds == 1..Len(tasks)

(***************************************************************************)
(* main() of the gls.Task variant.                                         *)
(***************************************************************************)
\* GetLocalProjects is not running
ScanIdle ==
  /\ fsParent = <<>> /\ fsKind = <<>> /\ pending = <<>>
  /\ scanPc = "none" /\ scanDir = 0
  /\ scanProjects = <<>> /\ scanErr = <<>> /\ calls = <<>>

\* no LineWriter is in use
LineIdle == lwBuf = <<>> /\ lwCalls = <<>> /\ written = <<>>

\* nothing has been removed
DeleteIdle == removed = {}

\* the renderer is not running
RenderIdle == renderIdx = 0 /\ progressingTasks = <<>>

SideIdle == ScanIdle /\ LineIdle /\ DeleteIdle /\ RenderIdle

\* GetActiveGitlabProjects is not running
WalkIdle ==
  /\ parent = <<>> /\ kinds = <<>>
  /\ gpc = "none" /\ ppc = <<>> /\ spc = <<>> /\ plist = <<>> /\ slist = <<>>
  /\ pwg = 0 /\ cwg = 0 /\ resChan = "none" /\ errChan = "none"
  /\ closer = "none" /\ resCollector = "none" /\ errCollector = "none"
  /\ result = <<>> /\ errors = <<>> /\ visited = <<>>
  /\ failedP = {} /\ failedS = {} /\ ret = <<>>

PoolIdle ==
  /\ spawned = 0 /\ loaded = 0 /\ taskQueue = <<>> /\ closed = FALSE /\ wg = 0
  /\ wpc = [w \in Workers |-> "none"]
  /\ wtask = [w \in Workers |-> 0]
  /\ wret = [w \in Workers |-> Nil]
  /\ wlines = [w \in Workers |-> 0]

NoTasks ==
  /\ tasks = <<>> /\ status = <<>> /\ message = <<>> /\ error = <<>>
  /\ tracker = <<>> /\ openTasks = <<>> /\ initial = <<>>
  /\ dequeued = <<>> /\ invoked = <<>> /\ returned = <<>> /\ errWrites = <<>>
  /\ wasProgressing = {} /\ report = <<>>

Init ==
  /\ variant = "gls"
  /\ localPath = "/home/u/Projects"
  /\ \E in \in Inputs : gitlabProjects = in[1] /\ localProjects = in[2]
  /\ mainErr = NilPtr
  /\ confirm = <<>>
  /\ numWorkers \in 0..MaxWorkers
  /\ mpc = "createTasks"
  /\ NoTasks
  /\ PoolIdle
  /\ WalkIdle
  /\ SideIdle

\* tasks := created, with the histories of a run that has not started
TasksAre(created) ==
  /\ tasks' = [i \in DOMAIN created |->
                 [f \in DOMAIN Deref(created[i]) \ {"status", "message", "error"}
                    |-> Deref(created[i])[f]]]
  /\ status' = [i \in DOMAIN created |-> Deref(created[i]).status]
  /\ message' = [i \in DOMAIN created |-> Deref(created[i]).message]
  /\ error' = [i \in DOMAIN created |-> Deref(created[i]).error]
  /\ initial' = [i \in DOMAIN created |->
                   [f \in {"status", "message", "error"} |-> Deref(created[i])[f]]]
  /\ dequeued' = [i \in DOMAIN created |-> 0]
  /\ invoked' = [i \in DOMAIN created |-> 0]
  /\ returned' = [i \in DOMAIN created |-> "none"]
  /\ errWrites' = [i \in DOMAIN created |-> 0]

\* tasks := createTasks(gitlabProjects, localProjects, cfg.Path.Local)
CreateTasks ==
  /\ mpc = "createTasks"
  /\ \E order \in Orders(DOMAIN pairProjects(gitlabProjects, localProjects)) :
       TasksAre(createTasks(gitlabProjects, localProjects, localPath, order))
  /\ mpc' = "FilterTasks"
  /\ UNCHANGED <<variant, localPath, gitlabProjects, localProjects, mainErr, confirm,
                 numWorkers,
                 tracker, openTasks, spawned, loaded, taskQueue, closed, wg, wpc, wtask,
                 wret, wlines, wasProgressing, report>>
  /\ UNCHANGED <<walkVars, sideVars>>

\* FilterTasks letting every task through, whatever its status
FilterOpenKeepsAll ==
  /\ mpc = "FilterTasks"
  /\ openTasks' = [i \in TaskIds |-> i]
  /\ mpc' = "RunTasks"
  /\ UNCHANGED <<variant, localPath, gitlabProjects, localProjects, mainErr, confirm,
                 numWorkers,
                 tasks, status, message, error, tracker, spawned, loaded, taskQueue,
                 closed, wg, wpc, wtask, wret, wlines, initial, dequeued, invoked,
                 returned, errWrites, wasProgressing, report>>
  /\ UNCHANGED <<walkVars, sideVars>>

\* openTasks := gls.FilterTasks(tasks, gls.Open); RunTasks is entered
FilterOpen ==
  /\ mpc = "FilterTasks"
  /\ openTasks' = FilterTasks([i \in TaskIds |-> i], status, Open)
  /\ mpc' = "RunTasks"
  /\ UNCHANGED <<variant, localPath, gitlabProjects, localProjects, mainErr, confirm,
                 numWorkers,
                 tasks, status, message, error, tracker, spawned, loaded, taskQueue,
                 closed, wg, wpc, wtask, wret, wlines, initial, dequeued, invoked,
                 returned, errWrites, wasProgressing, report>>
  /\ UNCHANGED <<walkVars, sideVars>>

(***************************************************************************)
(* RunTasks (pkg/gls/task.go): the goroutine that called it.               *)
(***************************************************************************)
inputsAndTasks == <<variant, localPath, gitlabProjects, localProjects, mainErr, confirm,
                    numWorkers, tasks, initial, openTasks>>
taskState == <<status, message, error, tracker>>
history == <<dequeued, invoked, returned, errWrites, wasProgressing, report>>

\* SpawnWorker with the loop started at 0: one worker too many
SpawnWorkerOneMore ==
  /\ mpc = "RunTasks"
  /\ spawned <= numWorkers
  /\ spawned < MaxWorkers
  /\ spawned' = spawned + 1
  /\ wg' = wg + 1
  /\ wpc' = [wpc EXCEPT ![spawned + 1] = "recv"]
  /\ UNCHANGED <<inputsAndTasks, taskState, history, mpc, loaded, taskQueue, closed,
                 wtask, wret, wlines>>
  /\ UNCHANGED <<walkVars, sideVars>>

\* for i := 1; i <= numWorkers; i++ { wg.Add(1); go func() {...}() }
SpawnWorker ==
  /\ mpc = "RunTasks"
  /\ spawned < numWorkers
  /\ spawned' = spawned + 1
  /\ wg' = wg + 1
  /\ wpc' = [wpc EXCEPT ![spawned + 1] = "recv"]
  /\ UNCHANGED <<inputsAndTasks, taskState, history, mpc, loaded, taskQueue, closed,
                 wtask, wret, wlines>>
  /\ UNCHANGED <<walkVars, sideVars>>

\* for _, task := range tasks { taskQueue <- task }: cap(taskQueue) = len(tasks)
LoadTask ==
  /\ mpc = "RunTasks"
  /\ spawned >= numWorkers
  /\ loaded < Len(openTasks)
  /\ Len(taskQueue) < Len(openTasks)
  /\ taskQueue' = Append(taskQueue, openTasks[loaded + 1])
  /\ loaded' = loaded + 1
  /\ UNCHANGED <<inputsAndTasks, taskState, history, mpc, spawned, closed, wg, wpc,
                 wtask, wret, wlines>>
  /\ UNCHANGED <<walkVars, sideVars>>

\* close(taskQueue)
CloseQueue ==
  /\ mpc = "RunTasks"
  /\ spawned >= numWorkers
  /\ loaded = Len(openTasks)
  /\ closed = FALSE
  /\ closed' = TRUE
  /\ UNCHANGED <<inputsAndTasks, taskState, history, mpc, spawned, loaded, taskQueue, wg,
                 wpc, wtask, wret, wlines>>
  /\ UNCHANGED <<walkVars, sideVars>>

\* WaitReturns without the wait: RunTasks returns once the queue is closed
WaitReturnsEarly ==
  /\ mpc = "RunTasks"
  /\ closed
  /\ mpc' = "report"
  /\ UNCHANGED <<inputsAndTasks, taskState, history, spawned, loaded, taskQueue, closed,
                 wg, wpc, wtask, wret, wlines>>
  /\ UNCHANGED <<walkVars, sideVars>>

\* wg.Wait() returns and so does RunTasks
WaitReturns ==
  /\ mpc = "RunTasks"
  /\ closed
  /\ wg = 0
  /\ mpc' = "report"
  /\ UNCHANGED <<inputsAndTasks, taskState, history, spawned, loaded, taskQueue, closed,
                 wg, wpc, wtask, wret, wlines>>
  /\ UNCHANGED <<walkVars, sideVars>>

\* for _, task := range openTasks { if task.GetError() != nil { fmt.Printf(...) } }
Report ==
  /\ mpc = "report"
  /\ report' = SelectIdx(openTasks, {t \in Range(openTasks) : error[t] # Nil}, 1)
  /\ mpc' = "exit"
  /\ UNCHANGED <<inputsAndTasks, taskState, spawned, loaded, taskQueue, closed, wg, wpc,
                 wtask, wret, wlines, dequeued, invoked, returned, errWrites,
                 wasProgressing>>
  /\ UNCHANGED <<walkVars, sideVars>>

(***************************************************************************)
(* RunTasks: a worker goroutine.                                           *)
(***************************************************************************)
\* Recv with the bug of a queue that is read without being advanced
RecvKeepsTask(w) ==
  /\ wpc[w] = "recv"
  /\ taskQueue # <<>>
  /\ wtask' = [wtask EXCEPT ![w] = Head(taskQueue)]
  /\ taskQueue' = taskQueue
  /\ dequeued' = [dequeued EXCEPT ![Head(taskQueue)] = @ + 1]
  /\ wpc' = [wpc EXCEPT ![w] = "SetStatus(Progressing)"]
  /\ UNCHANGED <<inputsAndTasks, taskState, mpc, spawned, loaded, closed, wg, wret,
                 wlines, invoked, returned, errWrites, wasProgressing, report>>
  /\ UNCHANGED <<walkVars, sideVars>>

\* for task := range taskQueue: a task is received
Recv(w) ==
  /\ wpc[w] = "recv"
  /\ taskQueue # <<>>
  /\ wtask' = [wtask EXCEPT ![w] = Head(taskQueue)]
  /\ taskQueue' = Tail(taskQueue)
  /\ dequeued' = [dequeued EXCEPT ![Head(taskQueue)] = @ + 1]
  /\ wpc' = [wpc EXCEPT ![w] = "SetStatus(Progressing)"]
  /\ UNCHANGED <<inputsAndTasks, taskState, mpc, spawned, loaded, closed, wg, wret,
                 wlines, invoked, returned, errWrites, wasProgressing, report>>
  /\ UNCHANGED <<walkVars, sideVars>>

\* a worker that ends without wg.Done()
WorkerExitWithoutDone(w) ==
  /\ wpc[w] = "recv"
  /\ taskQueue = <<>>
  /\ closed
  /\ wpc' = [wpc EXCEPT ![w] = "exit"]
  /\ wg' = wg
  /\ UNCHANGED <<inputsAndTasks, taskState, history, mpc, spawned, loaded, taskQueue,
                 closed, wtask, wret, wlines>>
  /\ UNCHANGED <<walkVars, sideVars>>

\* for task := range taskQueue: the queue is closed and drained; defer wg.Done()
WorkerExit(w) ==
  /\ wpc[w] = "recv"
  /\ taskQueue = <<>>
  /\ closed
  /\ wpc' = [wpc EXCEPT ![w] = "exit"]
  /\ wg' = wg - 1
  /\ UNCHANGED <<inputsAndTasks, taskState, history, mpc, spawned, loaded, taskQueue,
                 closed, wtask, wret, wlines>>
  /\ UNCHANGED <<walkVars, sideVars>>

\* SetProgressing with the status store forgotten
SetProgressingForgotten(w) ==
  /\ wpc[w] = "SetStatus(Progressing)"
  /\ status' = status
  /\ wasProgressing' = wasProgressing
  /\ invoked' = [invoked EXCEPT ![wtask[w]] = @ + 1]
  /\ wlines' = [wlines EXCEPT ![w] = 0]
  /\ wpc' = [wpc EXCEPT ![w] = "work"]
  /\ UNCHANGED <<inputsAndTasks, tracker, message, error, mpc, spawned, loaded, taskQueue, closed,
                 wg, wtask, wret, dequeued, returned, errWrites, report>>
  /\ UNCHANGED <<walkVars, sideVars>>

\* task.SetStatus(Progressing), and work(task) is entered
SetProgressing(w) ==
  /\ wpc[w] = "SetStatus(Progressing)"
  /\ status' = [status EXCEPT ![wtask[w]] = Progressing]
  /\ wasProgressing' = wasProgressing \cup {wtask[w]}
  /\ invoked' = [invoked EXCEPT ![wtask[w]] = @ + 1]
  /\ wlines' = [wlines EXCEPT ![w] = 0]
  /\ wpc' = [wpc EXCEPT ![w] = "work"]
  /\ UNCHANGED <<inputsAndTasks, tracker, message, error, mpc, spawned, loaded, taskQueue, closed,
                 wg, wtask, wret, dequeued, returned, errWrites, report>>
  /\ UNCHANGED <<walkVars, sideVars>>

\* a progress sink that is shared by all tasks: the line lands in every task's message
WorkProgressSetsEveryMessage(w) ==
  /\ wpc[w] = "work"
  /\ tasks[wtask[w]].Action \in {Clone, Pull}
  /\ wlines[w] < MaxLines
  /\ \E line \in ProgressLines : message' = [t \in DOMAIN message |-> line]
  /\ wlines' = [wlines EXCEPT ![w] = @ + 1]
  /\ UNCHANGED <<inputsAndTasks, tracker, status, error, history, mpc, spawned, loaded, taskQueue,
                 closed, wg, wpc, wtask, wret>>
  /\ UNCHANGED <<walkVars, sideVars>>

\* inside work: git reports a line and the LineWriter's callback runs task.SetMessage(line)
WorkProgress(w) ==
  /\ wpc[w] = "work"
  /\ tasks[wtask[w]].Action \in {Clone, Pull}
  /\ wlines[w] < MaxLines
  /\ \E line \in ProgressLines : message' = [message EXCEPT ![wtask[w]] = line]
  /\ wlines' = [wlines EXCEPT ![w] = @ + 1]
  /\ UNCHANGED <<inputsAndTasks, tracker, status, error, history, mpc, spawned, loaded, taskQueue,
                 closed, wg, wpc, wtask, wret>>
  /\ UNCHANGED <<walkVars, sideVars>>

\* work(task) returns: the clone, pull or delete ended with an error or with none
WorkReturn(w) ==
  /\ wpc[w] = "work"
  /\ \E err \in WorkResults :
       /\ wret' = [wret EXCEPT ![w] = err]
       /\ returned' = [returned EXCEPT ![wtask[w]] = err]
  /\ wpc' = [wpc EXCEPT ![w] = "SetError"]
  /\ UNCHANGED <<inputsAndTasks, taskState, mpc, spawned, loaded, taskQueue, closed, wg,
                 wtask, wlines, dequeued, invoked, errWrites, wasProgressing, report>>
  /\ UNCHANGED <<walkVars, sideVars>>

\* SetError with a retry: a failed task is run again instead of being recorded
SetErrorRetries(w) ==
  /\ wpc[w] = "SetError"
  /\ error' = [error EXCEPT ![wtask[w]] = IF wret[w] = Nil THEN Nil ELSE @]
  /\ errWrites' = [errWrites EXCEPT ![wtask[w]] = @ + 1]
  /\ wpc' = [wpc EXCEPT ![w] = IF wret[w] = Nil THEN "SetStatus(Completed)"
                                ELSE "SetStatus(Progressing)"]
  /\ UNCHANGED <<inputsAndTasks, tracker, status, message, mpc, spawned, loaded, taskQueue, closed,
                 wg, wtask, wret, wlines, dequeued, invoked, returned, wasProgressing,
                 report>>
  /\ UNCHANGED <<walkVars, sideVars>>

\* task.SetError(<what work returned>)
SetError(w) ==
  /\ wpc[w] = "SetError"
  /\ error' = [error EXCEPT ![wtask[w]] = wret[w]]
  /\ errWrites' = [errWrites EXCEPT ![wtask[w]] = @ + 1]
  /\ wpc' = [wpc EXCEPT ![w] = "SetStatus(Completed)"]
  /\ UNCHANGED <<inputsAndTasks, tracker, status, message, mpc, spawned, loaded, taskQueue, closed,
                 wg, wtask, wret, wlines, dequeued, invoked, returned, wasProgressing,
                 report>>
  /\ UNCHANGED <<walkVars, sideVars>>

\* SetCompleted with a worker that gives up after a failed task
SetCompletedStopsOnError(w) ==
  /\ wpc[w] = "SetStatus(Completed)"
  /\ status' = [status EXCEPT ![wtask[w]] = Completed]
  /\ wpc' = [wpc EXCEPT ![w] = IF wret[w] = Nil THEN "recv" ELSE "exit"]
  /\ wg' = IF wret[w] = Nil THEN wg ELSE wg - 1
  /\ wtask' = [wtask EXCEPT ![w] = 0]
  /\ UNCHANGED <<inputsAndTasks, tracker, message, error, history, mpc, spawned, loaded, taskQueue,
                 closed, wret, wlines>>
  /\ UNCHANGED <<walkVars, sideVars>>

\* task.SetStatus(Completed), and the loop asks for the next task
SetCompleted(w) ==
  /\ wpc[w] = "SetStatus(Completed)"
  /\ status' = [status EXCEPT ![wtask[w]] = Completed]
  /\ wpc' = [wpc EXCEPT ![w] = "recv"]
  /\ wtask' = [wtask EXCEPT ![w] = 0]
  /\ UNCHANGED <<inputsAndTasks, tracker, message, error, history, mpc, spawned, loaded, taskQueue,
                 closed, wg, wret, wlines>>
  /\ UNCHANGED <<walkVars, sideVars>>

Worker(w) ==
  \/ Recv(w)
  \/ WorkerExit(w)
  \/ SetProgressing(w)
  \/ WorkProgress(w)
  \/ WorkReturn(w)
  \/ SetError(w)
  \/ SetCompleted(w)

Next ==
  \/ CreateTasks
  \/ FilterOpen
  \/ SpawnWorker
  \/ LoadTask
  \/ CloseQueue
  \/ WaitReturns
  \/ Report
  \/ \E w \in Workers : Worker(w)

Spec == Init /\ [][Next]_vars

(***************************************************************************)
(* cmd/main.go: createTasks with the confirmation prompt.  A task's        *)
(* progress.Tracker is its status (new: Open, Start(): Progressing,        *)
(* MarkAsDone() or MarkAsErrored(): Completed), its Message and its        *)
(* numbers.                                                                *)
(***************************************************************************)
\* text.Pad(s, n, ' ')
RECURSIVE Pad(_, _)
Pad(s, n) == IF Len(s) >= n THEN s ELSE Pad(s \o " ", n)

\* the running maximum of createTasks: the longest of the strings, at least start
MaxLength(strings, start) ==
  LET lengths == {Len(x) : x \in strings} \cup {start}
  IN CHOOSE m \in lengths : \A k \in lengths : k <= m

\* the first loop's body with the test of the clone branch dropped: a project
\* without local copy gets a Pull
internalTaskNoClone(key, projectPair, answer) ==
  LET remote == projectPair.GitlabProject
      local == projectPair.LocalProject
  IN IF remote # NilPtr
     THEN IF local # NilPtr /\ Deref(remote).DefaultBranch # Deref(local).Branch
          THEN Ref([Key |-> key, Action |-> Pull, CloneUrl |-> "", Skipped |-> TRUE,
                    Message |-> "Skipped pulling", Branch |-> Deref(local).Branch])
          ELSE Ref([Key |-> key, Action |-> Pull, CloneUrl |-> "", Skipped |-> FALSE,
                    Message |-> "Pulling", Branch |-> Deref(remote).DefaultBranch])
     ELSE IF local # NilPtr
     THEN IF answer
          THEN Ref([Key |-> key, Action |-> Delete, CloneUrl |-> "", Skipped |-> FALSE,
                    Message |-> "Deleting", Branch |-> Deref(local).Branch])
          ELSE Ref([Key |-> key, Action |-> Delete, CloneUrl |-> "", Skipped |-> TRUE,
                    Message |-> "Skipped deletion", Branch |-> Deref(local).Branch])
     ELSE NilPtr

\* the first loop's body appending a nil task for a deletion the user declines
internalTaskNilWhenDeclined(key, projectPair, answer) ==
  LET remote == projectPair.GitlabProject
      local == projectPair.LocalProject
  IN IF remote # NilPtr /\ local # NilPtr
     THEN IF Deref(remote).DefaultBranch = Deref(local).Branch
          THEN Ref([Key |-> key, Action |-> Pull, CloneUrl |-> "", Skipped |-> FALSE,
                    Message |-> "Pulling", Branch |-> Deref(local).Branch])
          ELSE Ref([Key |-> key, Action |-> Pull, CloneUrl |-> "", Skipped |-> TRUE,
                    Message |-> "Skipped pulling", Branch |-> Deref(local).Branch])
     ELSE IF remote # NilPtr /\ local = NilPtr
     THEN Ref([Key |-> key, Action |-> Clone, CloneUrl |-> Deref(remote).CloneUrl,
               Skipped |-> FALSE, Message |-> "Cloning",
               Branch |-> Deref(remote).DefaultBranch])
     ELSE IF remote = NilPtr /\ local # NilPtr /\ answer
     THEN Ref([Key |-> key, Action |-> Delete, CloneUrl |-> "", Skipped |-> FALSE,
               Message |-> "Deleting", Branch |-> Deref(local).Branch])
     ELSE NilPtr

\* the body of the first loop of createTasks: the InternalTask of one pair of the
\* map; answer is what askForConfirmation returns if it is asked
internalTask(key, projectPair, answer) ==
  LET remote == projectPair.GitlabProject
      local == projectPair.LocalProject
  IN IF remote # NilPtr /\ local # NilPtr
     THEN IF Deref(remote).DefaultBranch = Deref(local).Branch
          THEN Ref([Key |-> key, Action |-> Pull, CloneUrl |-> "", Skipped |-> FALSE,
                    Message |-> "Pulling", Branch |-> Deref(local).Branch])
          ELSE Ref([Key |-> key, Action |-> Pull, CloneUrl |-> "", Skipped |-> TRUE,
                    Message |-> "Skipped pulling", Branch |-> Deref(local).Branch])
     ELSE IF remote # NilPtr /\ local = NilPtr
     THEN Ref([Key |-> key, Action |-> Clone, CloneUrl |-> Deref(remote).CloneUrl,
               Skipped |-> FALSE, Message |-> "Cloning",
               Branch |-> Deref(remote).DefaultBranch])
     ELSE IF remote = NilPtr /\ local # NilPtr
     THEN IF answer
          THEN Ref([Key |-> key, Action |-> Delete, CloneUrl |-> "", Skipped |-> FALSE,
                    Message |-> "Deleting", Branch |-> Deref(local).Branch])
          ELSE Ref([Key |-> key, Action |-> Delete, CloneUrl |-> "", Skipped |-> TRUE,
                    Message |-> "Skipped deletion", Branch |-> Deref(local).Branch])
     ELSE NilPtr

\* the keys askForConfirmation is asked about: those with a local copy only
LocalOnly(gl, lp) ==
  {key \in DOMAIN pairProjects(gl, lp) :
     /\ pairProjects(gl, lp)[key].GitlabProject = NilPtr
     /\ pairProjects(gl, lp)[key].LocalProject # NilPtr}

\* createTasks deleting every local-only project, whatever the user answers
cmdCreateTasksDeletesAnyway(gl, lp, lpath, order, answers) ==
  LET its == [i \in 1..Len(order) |->
                Deref(internalTask(order[i], pairProjects(gl, lp)[order[i]], TRUE))]
      messageLength == MaxLength({its[i].Message : i \in DOMAIN its}, Len("Action"))
      keyLength == MaxLength({its[i].Key : i \in DOMAIN its}, Len("Project"))
      branchLength == MaxLength({its[i].Branch : i \in DOMAIN its}, Len("Branch"))
  IN [i \in DOMAIN its |->
        Ref([Path |-> lpath \o "/" \o its[i].Key,
             Key |-> its[i].Key,
             Branch |-> its[i].Branch,
             CloneUrl |-> its[i].CloneUrl,
             Action |-> its[i].Action,
             Skipped |-> its[i].Skipped,
             status |-> Open,
             message |-> Pad(its[i].Message, messageLength + 2)
                           \o Pad(its[i].Key, keyLength + 2)
                           \o Pad(its[i].Branch, branchLength + 2),
             error |-> Nil])]

\* createTasks of cmd/main.go: the tasks in the order the map is ranged over, with
\* the answers the user gives.  Key and Branch are those of the InternalTask the
\* Task is built from, which the Task itself keeps only inside its message.
cmdCreateTasks(gl, lp, lpath, order, answers) ==
  LET its == [i \in 1..Len(order) |->
                Deref(internalTask(order[i], pairProjects(gl, lp)[order[i]],
                                   IF order[i] \in DOMAIN answers THEN answers[order[i]]
                                   ELSE FALSE))]
      messageLength == MaxLength({its[i].Message : i \in DOMAIN its}, Len("Action"))
      keyLength == MaxLength({its[i].Key : i \in DOMAIN its}, Len("Project"))
      branchLength == MaxLength({its[i].Branch : i \in DOMAIN its}, Len("Branch"))
  IN [i \in DOMAIN its |->
        Ref([Path |-> lpath \o "/" \o its[i].Key,
             Key |-> its[i].Key,
             Branch |-> its[i].Branch,
             CloneUrl |-> its[i].CloneUrl,
             Action |-> its[i].Action,
             Skipped |-> its[i].Skipped,
             status |-> Open,
             message |-> Pad(its[i].Message, messageLength + 2)
                           \o Pad(its[i].Key, keyLength + 2)
                           \o Pad(its[i].Branch, branchLength + 2),
             error |-> Nil])]

\* a new progress.Tracker's numbers
NewTracker == [Errored |-> FALSE, Total |-> 0, Value |-> 0]

\* the lines git writes to stderr, with the submatches of
\* ^Receiving objects:.*\((\d+)/(\d+)\) on each (<<>>: no match)
GitLines ==
  {[line |-> "Receiving objects:  50% (1/2)", matches |-> <<1, 2>>],
   [line |-> "remote: Enumerating objects: 2, done.", matches |-> <<>>]}

\* lineProcessor(line) on the tracker numbers tr
lineProcessor(tr, gitLine) ==
  IF Len(gitLine.matches) = 2
  THEN [tr EXCEPT !.Total = gitLine.matches[2], !.Value = gitLine.matches[1]]
  ELSE tr

InitExec ==
  /\ variant = "cmd"
  /\ localPath = "/home/u/Projects"
  /\ \E in \in RemoteInputs \X LocalInputs : gitlabProjects = in[1] /\ localProjects = in[2]
  /\ mainErr = NilPtr
  /\ confirm = <<>>
  /\ numWorkers \in 0..MaxWorkers
  /\ mpc = "cmd.createTasks"
  /\ NoTasks
  /\ PoolIdle
  /\ WalkIdle
  /\ SideIdle

\* tasks, header := createTasks(gitlabProjects, localProjects, cfg.Path.Local);
\* executeTasks(tasks, cfg.Workers, pw) is entered with all of them
CmdCreateTasks ==
  /\ mpc = "cmd.createTasks"
  /\ \E order \in Orders(DOMAIN pairProjects(gitlabProjects, localProjects)) :
       \E answers \in [LocalOnly(gitlabProjects, localProjects) -> BOOLEAN] :
         /\ TasksAre(cmdCreateTasks(gitlabProjects, localProjects, localPath, order,
                                    answers))
         /\ confirm' = answers
         /\ tracker' = [i \in DOMAIN order |-> NewTracker]
         /\ openTasks' = [i \in DOMAIN order |-> i]
  /\ mpc' = "executeTasks"
  /\ UNCHANGED <<variant, localPath, gitlabProjects, localProjects, mainErr, numWorkers,
                 spawned, loaded, taskQueue, closed, wg, wpc, wtask, wret, wlines,
                 wasProgressing, report>>
  /\ UNCHANGED <<walkVars, sideVars>>

(***************************************************************************)
(* executeTasks (cmd/main.go): the goroutine that called it.               *)
(***************************************************************************)
\* for i := 1; i <= numWorkers; i++ { wg.Add(1); go func() {...}() }
CmdSpawnWorker ==
  /\ mpc = "executeTasks"
  /\ spawned < numWorkers
  /\ spawned' = spawned + 1
  /\ wg' = wg + 1
  /\ wpc' = [wpc EXCEPT ![spawned + 1] = "cmd.recv"]
  /\ UNCHANGED <<inputsAndTasks, taskState, history, mpc, loaded, taskQueue, closed,
                 wtask, wret, wlines>>
  /\ UNCHANGED <<walkVars, sideVars>>

\* for _, task := range tasks { taskQueue <- task }: cap(taskQueue) = len(tasks)
CmdLoadTask ==
  /\ mpc = "executeTasks"
  /\ spawned >= numWorkers
  /\ loaded < Len(openTasks)
  /\ Len(taskQueue) < Len(openTasks)
  /\ taskQueue' = Append(taskQueue, openTasks[loaded + 1])
  /\ loaded' = loaded + 1
  /\ UNCHANGED <<inputsAndTasks, taskState, history, mpc, spawned, closed, wg, wpc,
                 wtask, wret, wlines>>
  /\ UNCHANGED <<walkVars, sideVars>>

\* close(taskQueue)
CmdCloseQueue ==
  /\ mpc = "executeTasks"
  /\ spawned >= numWorkers
  /\ loaded = Len(openTasks)
  /\ closed = FALSE
  /\ closed' = TRUE
  /\ UNCHANGED <<inputsAndTasks, taskState, history, mpc, spawned, loaded, taskQueue, wg,
                 wpc, wtask, wret, wlines>>
  /\ UNCHANGED <<walkVars, sideVars>>

\* wg.Wait() returns and so does executeTasks
CmdWaitReturns ==
  /\ mpc = "executeTasks"
  /\ closed
  /\ wg = 0
  /\ mpc' = "cmd.report"
  /\ UNCHANGED <<inputsAndTasks, taskState, history, spawned, loaded, taskQueue, closed,
                 wg, wpc, wtask, wret, wlines>>
  /\ UNCHANGED <<walkVars, sideVars>>

\* the report printing a line for every task, failed or not
CmdReportEveryTask ==
  /\ mpc = "cmd.report"
  /\ report' = [i \in TaskIds |-> i]
  /\ mpc' = "cmd.exit"
  /\ UNCHANGED <<inputsAndTasks, taskState, spawned, loaded, taskQueue, closed, wg, wpc,
                 wtask, wret, wlines, dequeued, invoked, returned, errWrites,
                 wasProgressing>>
  /\ UNCHANGED <<walkVars, sideVars>>

\* for _, task := range tasks { if task.Error.Load() != nil { println(...) } }
CmdReport ==
  /\ mpc = "cmd.report"
  /\ report' = SelectIdx([i \in TaskIds |-> i], {t \in TaskIds : error[t] # Nil}, 1)
  /\ mpc' = "cmd.exit"
  /\ UNCHANGED <<inputsAndTasks, taskState, spawned, loaded, taskQueue, closed, wg, wpc,
                 wtask, wret, wlines, dequeued, invoked, returned, errWrites,
                 wasProgressing>>
  /\ UNCHANGED <<walkVars, sideVars>>

(***************************************************************************)
(* executeTasks: a worker goroutine.                                       *)
(***************************************************************************)
\* CmdRecv without the test of task.Skipped: every received task is started
CmdRecvRunsSkipped(w) ==
  /\ wpc[w] = "cmd.recv"
  /\ taskQueue # <<>>
  /\ wtask' = [wtask EXCEPT ![w] = Head(taskQueue)]
  /\ taskQueue' = Tail(taskQueue)
  /\ dequeued' = [dequeued EXCEPT ![Head(taskQueue)] = @ + 1]
  /\ wpc' = [wpc EXCEPT ![w] = "Start"]
  /\ UNCHANGED <<inputsAndTasks, taskState, mpc, spawned, loaded, closed, wg, wret,
                 wlines, invoked, returned, errWrites, wasProgressing, report>>
  /\ UNCHANGED <<walkVars, sideVars>>

\* for task := range taskQueue: a task is received; pw.AppendTracker(task.Tracker)
\* hands its tracker to the renderer; if task.Skipped {...} else {...}
CmdRecv(w) ==
  /\ wpc[w] = "cmd.recv"
  /\ taskQueue # <<>>
  /\ wtask' = [wtask EXCEPT ![w] = Head(taskQueue)]
  /\ taskQueue' = Tail(taskQueue)
  /\ dequeued' = [dequeued EXCEPT ![Head(taskQueue)] = @ + 1]
  /\ wpc' = [wpc EXCEPT ![w] = IF tasks[Head(taskQueue)].Skipped THEN "MarkAsDone"
                                ELSE "Start"]
  /\ UNCHANGED <<inputsAndTasks, taskState, mpc, spawned, loaded, closed, wg, wret,
                 wlines, invoked, returned, errWrites, wasProgressing, report>>
  /\ UNCHANGED <<walkVars, sideVars>>

\* for task := range taskQueue: the queue is closed and drained; defer wg.Done()
CmdWorkerExit(w) ==
  /\ wpc[w] = "cmd.recv"
  /\ taskQueue = <<>>
  /\ closed
  /\ wpc' = [wpc EXCEPT ![w] = "cmd.exit"]
  /\ wg' = wg - 1
  /\ UNCHANGED <<inputsAndTasks, taskState, history, mpc, spawned, loaded, taskQueue,
                 closed, wtask, wret, wlines>>
  /\ UNCHANGED <<walkVars, sideVars>>

\* task.Tracker.Start(), and executeTask(task) is entered
TrackerStart(w) ==
  /\ wpc[w] = "Start"
  /\ status' = [status EXCEPT ![wtask[w]] = Progressing]
  /\ wasProgressing' = wasProgressing \cup {wtask[w]}
  /\ invoked' = [invoked EXCEPT ![wtask[w]] = @ + 1]
  /\ wlines' = [wlines EXCEPT ![w] = 0]
  /\ wpc' = [wpc EXCEPT ![w] = "executeTask"]
  /\ UNCHANGED <<inputsAndTasks, tracker, message, error, mpc, spawned, loaded, taskQueue,
                 closed, wg, wtask, wret, dequeued, returned, errWrites, report>>
  /\ UNCHANGED <<walkVars, sideVars>>

\* inside executeTask: git writes a line and lineProcessor(line) runs
CmdProgress(w) ==
  /\ wpc[w] = "executeTask"
  /\ tasks[wtask[w]].Action \in {Clone, Pull}
  /\ wlines[w] < MaxLines
  /\ \E gitLine \in GitLines :
       tracker' = [tracker EXCEPT ![wtask[w]] = lineProcessor(@, gitLine)]
  /\ wlines' = [wlines EXCEPT ![w] = @ + 1]
  /\ UNCHANGED <<inputsAndTasks, status, message, error, history, mpc, spawned, loaded,
                 taskQueue, closed, wg, wpc, wtask, wret>>
  /\ UNCHANGED <<walkVars, sideVars>>

\* err := executeTask(task); if err != nil {...} else {...}
CmdReturn(w) ==
  /\ wpc[w] = "executeTask"
  /\ \E err \in WorkResults :
       /\ wret' = [wret EXCEPT ![w] = err]
       /\ returned' = [returned EXCEPT ![wtask[w]] = err]
       /\ wpc' = [wpc EXCEPT ![w] = IF err # Nil THEN "MarkAsErrored" ELSE "MarkAsDone"]
  /\ UNCHANGED <<inputsAndTasks, taskState, mpc, spawned, loaded, taskQueue, closed, wg,
                 wtask, wlines, dequeued, invoked, errWrites, wasProgressing, report>>
  /\ UNCHANGED <<walkVars, sideVars>>

\* task.Tracker.MarkAsErrored()
MarkAsErrored(w) ==
  /\ wpc[w] = "MarkAsErrored"
  /\ status' = [status EXCEPT ![wtask[w]] = Completed]
  /\ tracker' = [tracker EXCEPT ![wtask[w]].Errored = TRUE]
  /\ wpc' = [wpc EXCEPT ![w] = "Error.Store"]
  /\ UNCHANGED <<inputsAndTasks, message, error, history, mpc, spawned, loaded, taskQueue,
                 closed, wg, wtask, wret, wlines>>
  /\ UNCHANGED <<walkVars, sideVars>>

\* task.Error.Store(err), and the loop asks for the next task
StoreError(w) ==
  /\ wpc[w] = "Error.Store"
  /\ error' = [error EXCEPT ![wtask[w]] = wret[w]]
  /\ errWrites' = [errWrites EXCEPT ![wtask[w]] = @ + 1]
  /\ wpc' = [wpc EXCEPT ![w] = "cmd.recv"]
  /\ wtask' = [wtask EXCEPT ![w] = 0]
  /\ UNCHANGED <<inputsAndTasks, tracker, status, message, mpc, spawned, loaded, taskQueue,
                 closed, wg, wret, wlines, dequeued, invoked, returned, wasProgressing,
                 report>>
  /\ UNCHANGED <<walkVars, sideVars>>

\* task.Tracker.MarkAsDone(), of a skipped task or of one whose action succeeded,
\* and the loop asks for the next task
MarkAsDone(w) ==
  /\ wpc[w] = "MarkAsDone"
  /\ status' = [status EXCEPT ![wtask[w]] = Completed]
  /\ wpc' = [wpc EXCEPT ![w] = "cmd.recv"]
  /\ wtask' = [wtask EXCEPT ![w] = 0]
  /\ UNCHANGED <<inputsAndTasks, tracker, message, error, history, mpc, spawned, loaded,
                 taskQueue, closed, wg, wret, wlines>>
  /\ UNCHANGED <<walkVars, sideVars>>

CmdWorker(w) ==
  \/ CmdRecv(w)
  \/ CmdWorkerExit(w)
  \/ TrackerStart(w)
  \/ CmdProgress(w)
  \/ CmdReturn(w)
  \/ MarkAsErrored(w)
  \/ StoreError(w)
  \/ MarkAsDone(w)

NextExec ==
  \/ CmdCreateTasks
  \/ CmdSpawnWorker
  \/ CmdLoadTask
  \/ CmdCloseQueue
  \/ CmdWaitReturns
  \/ CmdReport
  \/ \E w \in Workers : CmdWorker(w)

SpecExec == InitExec /\ [][NextExec]_vars

\* either main package
NextBoth ==
  \/ Next
  \/ NextExec

SpecBoth == (Init \/ InitExec) /\ [][NextBoth]_vars

(***************************************************************************)
(* createTasks on its own, for both main packages: the lists are all the   *)
(* lists of at most MaxList descriptors, repeated paths included.          *)
(***************************************************************************)
RemoteSeqs ==
  UNION {[1..n -> {GitlabProject(path, b) : path \in SmallPaths, b \in Branches}] :
           n \in 0..MaxList}

LocalSeqs ==
  UNION {[1..n -> {LocalProject(path, b) : path \in SmallPaths, b \in Branches}] :
           n \in 0..MaxList}

InitCreate ==
  /\ variant \in {"gls", "cmd"}
  /\ localPath = "/home/u/Projects"
  /\ gitlabProjects \in RemoteSeqs
  /\ localProjects \in LocalSeqs
  /\ mainErr = NilPtr
  /\ confirm = <<>>
  /\ numWorkers = 1
  /\ mpc = IF variant = "gls" THEN "createTasks" ELSE "cmd.createTasks"
  /\ NoTasks
  /\ PoolIdle
  /\ WalkIdle
  /\ SideIdle

NextCreate ==
  \/ CreateTasks
  \/ CmdCreateTasks

SpecCreate == InitCreate /\ [][NextCreate]_vars

(***************************************************************************)
(* pkg/gitlab: GetActiveGitlabProjects walks the group tree under the      *)
(* configured root.  For every group visited, listProjectsRecursively      *)
(* starts two goroutines, one listing the group's projects and one listing *)
(* its subgroups; both send on the unbuffered channels resChan and errChan,*)
(* which two collector goroutines drain into result and errors.            *)
(***************************************************************************)
Groups == 0..MaxGroup
RootGroup == 0

\* cfg.Gitlab.Group, as path segments
groupPath == <<"acme", "platform">>

\* the group trees with root 0: every other group has a parent of smaller id
Trees == {p \in [1..MaxGroup -> Groups] : \A g \in 1..MaxGroup : p[g] < g}

\* what the projects a group owns can be: active, archived, or active and shared
\* with one other group of the instance
KindLists == <<<<"active">>, <<"archived", "active">>, <<"shared">>>>

\* the ways to give every group its projects: the lists of KindLists in turn,
\* starting with any of them at the root
Ownerships ==
  {[g \in Groups |-> KindLists[((g + r) % Len(KindLists)) + 1]] :
     r \in 1..Len(KindLists)}

\* group.FullPath
RECURSIVE FullPath(_)
FullPath(g) ==
  IF g = RootGroup THEN groupPath
  ELSE Append(FullPath(parent[g]), "g" \o ToString(g))

\* the group an owned project of kind "shared" is shared with
ShareTarget(g) == (g + 1) % (MaxGroup + 1)

\* the gitlab.Project the API returns for the i-th project that group g owns
ApiProject(g, i) ==
  [PathWithNamespace |-> Append(FullPath(g), "p" \o ToString(i)),
   Archived |-> kinds[g][i] = "archived",
   SharedWithGroups |-> IF kinds[g][i] = "shared" THEN {ShareTarget(g)} ELSE {},
   DefaultBranch |-> "main",
   SSHURLToRepo |-> <<"git@gitlab", Append(FullPath(g), "p" \o ToString(i))>>]

Owned(g) == [i \in DOMAIN kinds[g] |-> ApiProject(g, i)]

\* the concatenation of the sequences ss[1], ss[2], ...
RECURSIVE Flatten(_)
Flatten(ss) == IF ss = <<>> THEN <<>> ELSE Head(ss) \o Flatten(Tail(ss))

\* the groups in ascending order of id
GroupSeq == [i \in 1..(MaxGroup + 1) |-> i - 1]

\* a successful gl.Groups.ListGroupProjects(g, nil): the projects g owns, then the
\* projects other groups own and have shared with g
GroupProjects(g) ==
  LET sharers == SelectSeq(GroupSeq, LAMBDA h : h # g)
      SharedIn(h) == SelectSeq(Owned(h), LAMBDA p : g \in p.SharedWithGroups)
  IN  Owned(g) \o Flatten([i \in DOMAIN sharers |-> SharedIn(sharers[i])])

\* a successful gl.Groups.ListSubGroups(g, nil): the direct subgroups of g
SubGroups(g) == SelectSeq(GroupSeq, LAMBDA h : h # RootGroup /\ parent[h] = g)

\* strings.TrimPrefix(path, prefix + "/") on path segments
TrimPrefix(path, prefix) ==
  IF Len(path) > Len(prefix) /\ SubSeq(path, 1, Len(prefix)) = prefix
  THEN SubSeq(path, Len(prefix) + 1, Len(path))
  ELSE path

\* the test of the result collector
Active(project) == ~project.Archived /\ Cardinality(project.SharedWithGroups) = 0

\* &Project{Path, DefaultBranch, CloneUrl} built by the result collector
Project(project) ==
  [Path |-> TrimPrefix(project.PathWithNamespace, groupPath),
   DefaultBranch |-> project.DefaultBranch,
   CloneUrl |-> project.SSHURLToRepo]

\* the error of a failed listing request
ListError(g, request) == [group |-> g, request |-> request]

InitWalk ==
  /\ variant = "walk"
  /\ localPath = "/home/u/Projects"
  /\ gitlabProjects = <<>> /\ localProjects = <<>>
  /\ mainErr = NilPtr
  /\ confirm = <<>>
  /\ numWorkers = 0
  /\ mpc = "GetActiveGitlabProjects"
  /\ NoTasks
  /\ PoolIdle
  /\ parent \in Trees
  /\ kinds \in Ownerships
  /\ gpc = "getGroupByPath"
  /\ ppc = [g \in Groups |-> "none"]
  /\ spc = [g \in Groups |-> "none"]
  /\ plist = [g \in Groups |-> <<>>]
  /\ slist = [g \in Groups |-> <<>>]
  /\ pwg = 0 /\ cwg = 0 /\ resChan = "none" /\ errChan = "none"
  /\ closer = "none" /\ resCollector = "none" /\ errCollector = "none"
  /\ result = <<>> /\ errors = <<>> /\ visited = <<>>
  /\ failedP = {} /\ failedS = {} /\ ret = NilPtr
  /\ SideIdle

walkTree == <<parent, kinds>>
listers == <<ppc, spc, plist, slist>>
collectors == <<closer, resCollector, errCollector>>
channels == <<resChan, errChan>>

\* GetGroupByPath with the visitor told of the root before the group is looked up
GetGroupByPathVisitsFirst ==
  /\ gpc = "getGroupByPath"
  /\ visited' = Append(visited, RootGroup)
  /\ \E outcome \in {"error", "nil", "found"} :
       IF outcome = "found"
       THEN /\ gpc' = "listProjectsRecursively"
            /\ resChan' = "open" /\ errChan' = "open"
            /\ ret' = ret
       ELSE /\ gpc' = "returned early"
            /\ ret' = Ref([result |-> <<>>,
                           errors |-> <<[group |-> -1, request |-> outcome]>>])
            /\ UNCHANGED channels
  /\ UNCHANGED <<walkTree, listers, collectors, pwg, cwg, result, errors,
                 failedP, failedS, pipeVars, sideVars>>

\* group, err := getGroupByPath(gl.client, groupPath): the search fails, finds no
\* group of that full path, or finds the root group; the channels are made
GetGroupByPath ==
  /\ gpc = "getGroupByPath"
  /\ \E outcome \in {"error", "nil", "found"} :
       IF outcome = "found"
       THEN /\ gpc' = "listProjectsRecursively"
            /\ resChan' = "open" /\ errChan' = "open"
            /\ ret' = ret
       ELSE /\ gpc' = "returned early"
            /\ ret' = Ref([result |-> <<>>,
                           errors |-> <<[group |-> -1, request |-> outcome]>>])
            /\ UNCHANGED channels
  /\ UNCHANGED <<walkTree, listers, collectors, pwg, cwg, result, errors, visited,
                 failedP, failedS, pipeVars, sideVars>>

\* listProjectsRecursively(gl.client, group, ...) for the root: progress(), wg.Add(2)
\* and the two go statements
ListRoot ==
  /\ gpc = "listProjectsRecursively"
  /\ visited' = Append(visited, RootGroup)
  /\ pwg' = pwg + 2
  /\ ppc' = [ppc EXCEPT ![RootGroup] = "ListGroupProjects"]
  /\ spc' = [spc EXCEPT ![RootGroup] = "ListSubGroups"]
  /\ gpc' = "go"
  /\ UNCHANGED <<walkTree, plist, slist, collectors, channels, cwg, result, errors,
                 failedP, failedS, ret, pipeVars, sideVars>>

\* cwg.Add(3) and the three go statements of GetActiveGitlabProjects
SpawnCollectors ==
  /\ gpc = "go"
  /\ cwg' = cwg + 3
  /\ closer' = "pwg.Wait"
  /\ resCollector' = "range resChan"
  /\ errCollector' = "range errChan"
  /\ gpc' = "cwg.Wait"
  /\ UNCHANGED <<walkTree, listers, channels, pwg, result, errors, visited, failedP,
                 failedS, ret, pipeVars, sideVars>>

\* cwg.Wait() returns; return result, errors
WalkReturns ==
  /\ gpc = "cwg.Wait"
  /\ cwg = 0
  /\ ret' = Ref([result |-> result, errors |-> errors])
  /\ gpc' = "returned"
  /\ UNCHANGED <<walkTree, listers, collectors, channels, pwg, cwg, result, errors,
                 visited, failedP, failedS, pipeVars, sideVars>>

\* where a goroutine of listProjectsRecursively goes with these projects left to
\* send: it sends the next, or it ends and its deferred wg.Done() runs
AfterProjects(list) == IF list = <<>> THEN "done" ELSE "resChan <-"

\* what the goroutine's end takes from the counter of pwg
Done(list) == IF list = <<>> THEN 1 ELSE 0

\* projects, _, err := gl.Groups.ListGroupProjects(group.ID, nil); a failed request
\* yields no projects, and a goroutine with nothing to send ends
ListGroupProjects(g) ==
  /\ ppc[g] = "ListGroupProjects"
  /\ \E failed \in BOOLEAN :
       IF failed
       THEN /\ plist' = [plist EXCEPT ![g] = <<>>]
            /\ failedP' = failedP \cup {g}
            /\ ppc' = [ppc EXCEPT ![g] = "errChan <-"]
            /\ pwg' = pwg
       ELSE /\ plist' = [plist EXCEPT ![g] = GroupProjects(g)]
            /\ failedP' = failedP
            /\ ppc' = [ppc EXCEPT ![g] = AfterProjects(GroupProjects(g))]
            /\ pwg' = pwg - Done(GroupProjects(g))
  /\ UNCHANGED <<walkTree, gpc, spc, slist, collectors, channels, cwg, result,
                 errors, visited, failedS, ret, pipeVars, sideVars>>

\* errChan <- err of the projects goroutine, received by the error collector and
\* appended to errors, but dropped
SendProjectsErrorLost(g) ==
  /\ ppc[g] = "errChan <-"
  /\ errChan = "open" /\ errCollector = "range errChan"
  /\ ppc' = [ppc EXCEPT ![g] = AfterProjects(plist[g])]
  /\ pwg' = pwg - Done(plist[g])
  /\ UNCHANGED <<walkTree, gpc, spc, plist, slist, collectors, channels, cwg,
                 result, errors, visited, failedP, failedS, ret, pipeVars, sideVars>>

\* errChan <- err of the projects goroutine, received by the error collector:
\* errors = append(errors, err).  projects is nil after the failure, so the
\* goroutine ends
SendProjectsError(g) ==
  /\ ppc[g] = "errChan <-"
  /\ errChan = "open" /\ errCollector = "range errChan"
  /\ errors' = Append(errors, ListError(g, "ListGroupProjects"))
  /\ ppc' = [ppc EXCEPT ![g] = AfterProjects(plist[g])]
  /\ pwg' = pwg - Done(plist[g])
  /\ UNCHANGED <<walkTree, gpc, spc, plist, slist, collectors, channels, cwg,
                 result, visited, failedP, failedS, ret, pipeVars, sideVars>>

\* resChan <- project where the append loses what result held, as an append racing
\* with another would
SendProjectOverwrites(g) ==
  /\ ppc[g] = "resChan <-"
  /\ resChan = "open" /\ resCollector = "range resChan"
  /\ result' = IF Active(Head(plist[g]))
               THEN <<Project(Head(plist[g]))>>
               ELSE result
  /\ plist' = [plist EXCEPT ![g] = Tail(plist[g])]
  /\ ppc' = [ppc EXCEPT ![g] = AfterProjects(Tail(plist[g]))]
  /\ pwg' = pwg - Done(Tail(plist[g]))
  /\ UNCHANGED <<walkTree, gpc, spc, slist, collectors, channels, cwg, errors,
                 visited, failedP, failedS, ret, pipeVars, sideVars>>

\* resChan <- project, received by the result collector, which appends the
\* project to result if it is neither archived nor shared; after the last project
\* the goroutine ends
SendProject(g) ==
  /\ ppc[g] = "resChan <-"
  /\ resChan = "open" /\ resCollector = "range resChan"
  /\ result' = IF Active(Head(plist[g]))
               THEN Append(result, Project(Head(plist[g])))
               ELSE result
  /\ plist' = [plist EXCEPT ![g] = Tail(plist[g])]
  /\ ppc' = [ppc EXCEPT ![g] = AfterProjects(Tail(plist[g]))]
  /\ pwg' = pwg - Done(Tail(plist[g]))
  /\ UNCHANGED <<walkTree, gpc, spc, slist, collectors, channels, cwg, errors,
                 visited, failedP, failedS, ret, pipeVars, sideVars>>

\* where the subgroups goroutine goes with these subgroups left to walk
AfterSubGroups(list) == IF list = <<>> THEN "done" ELSE "listProjectsRecursively"

\* subgroups, _, err := gl.Groups.ListSubGroups(group.ID, nil); a failed request
\* yields no subgroups, and a goroutine with nothing to walk ends
ListSubGroups(g) ==
  /\ spc[g] = "ListSubGroups"
  /\ \E failed \in BOOLEAN :
       IF failed
       THEN /\ slist' = [slist EXCEPT ![g] = <<>>]
            /\ failedS' = failedS \cup {g}
            /\ spc' = [spc EXCEPT ![g] = "errChan <-"]
            /\ pwg' = pwg
       ELSE /\ slist' = [slist EXCEPT ![g] = SubGroups(g)]
            /\ failedS' = failedS
            /\ spc' = [spc EXCEPT ![g] = AfterSubGroups(SubGroups(g))]
            /\ pwg' = pwg - Done(SubGroups(g))
  /\ UNCHANGED <<walkTree, gpc, ppc, plist, collectors, channels, cwg, result,
                 errors, visited, failedP, ret, pipeVars, sideVars>>

\* errChan <- err of the subgroups goroutine, received by the error collector;
\* subgroups is nil after the failure, so the goroutine ends
SendSubGroupsError(g) ==
  /\ spc[g] = "errChan <-"
  /\ errChan = "open" /\ errCollector = "range errChan"
  /\ errors' = Append(errors, ListError(g, "ListSubGroups"))
  /\ spc' = [spc EXCEPT ![g] = AfterSubGroups(slist[g])]
  /\ pwg' = pwg - Done(slist[g])
  /\ UNCHANGED <<walkTree, gpc, ppc, plist, slist, collectors, channels, cwg,
                 result, visited, failedP, failedS, ret, pipeVars, sideVars>>

\* listProjectsRecursively for the next subgroup, but the remaining subgroups are
\* given up once an error has been recorded
RecurseUnlessError(g) ==
  /\ spc[g] = "listProjectsRecursively"
  /\ IF errors # <<>>
     THEN /\ slist' = [slist EXCEPT ![g] = <<>>]
          /\ spc' = [spc EXCEPT ![g] = "done"]
          /\ pwg' = pwg - 1
          /\ UNCHANGED <<visited, ppc>>
     ELSE /\ visited' = Append(visited, Head(slist[g]))
          /\ pwg' = pwg + 2 - Done(Tail(slist[g]))
          /\ ppc' = [ppc EXCEPT ![Head(slist[g])] = "ListGroupProjects"]
          /\ spc' = [spc EXCEPT ![Head(slist[g])] = "ListSubGroups",
                                ![g] = AfterSubGroups(Tail(slist[g]))]
          /\ slist' = [slist EXCEPT ![g] = Tail(slist[g])]
  /\ UNCHANGED <<walkTree, gpc, plist, collectors, channels, cwg, result, errors,
                 failedP, failedS, ret, pipeVars, sideVars>>

\* listProjectsRecursively for the next subgroup without its call of progress()
RecurseWithoutProgress(g) ==
  /\ spc[g] = "listProjectsRecursively"
  /\ visited' = visited
  /\ pwg' = pwg + 2 - Done(Tail(slist[g]))
  /\ ppc' = [ppc EXCEPT ![Head(slist[g])] = "ListGroupProjects"]
  /\ spc' = [spc EXCEPT ![Head(slist[g])] = "ListSubGroups",
                        ![g] = AfterSubGroups(Tail(slist[g]))]
  /\ slist' = [slist EXCEPT ![g] = Tail(slist[g])]
  /\ UNCHANGED <<walkTree, gpc, plist, collectors, channels, cwg, result, errors,
                 failedP, failedS, ret, pipeVars, sideVars>>

\* listProjectsRecursively(gl, subgroup, ...) for the next subgroup of g, called by
\* the subgroups goroutine of g: progress(), wg.Add(2) and the two go statements;
\* after the last subgroup the goroutine ends
Recurse(g) ==
  /\ spc[g] = "listProjectsRecursively"
  /\ visited' = Append(visited, Head(slist[g]))
  /\ pwg' = pwg + 2 - Done(Tail(slist[g]))
  /\ ppc' = [ppc EXCEPT ![Head(slist[g])] = "ListGroupProjects"]
  /\ spc' = [spc EXCEPT ![Head(slist[g])] = "ListSubGroups",
                        ![g] = AfterSubGroups(Tail(slist[g]))]
  /\ slist' = [slist EXCEPT ![g] = Tail(slist[g])]
  /\ UNCHANGED <<walkTree, gpc, plist, collectors, channels, cwg, result, errors,
                 failedP, failedS, ret, pipeVars, sideVars>>

\* the closing goroutine without pwg.Wait(): it closes the channels at once
CloserDoesNotWait ==
  /\ closer = "pwg.Wait"
  /\ closer' = "close(resChan)"
  /\ UNCHANGED <<walkTree, gpc, listers, resCollector, errCollector, channels, pwg,
                 cwg, result, errors, visited, failedP, failedS, ret, pipeVars, sideVars>>

\* pwg.Wait() of the closing goroutine returns
CloserWait ==
  /\ closer = "pwg.Wait"
  /\ pwg = 0
  /\ closer' = "close(resChan)"
  /\ UNCHANGED <<walkTree, gpc, listers, resCollector, errCollector, channels, pwg,
                 cwg, result, errors, visited, failedP, failedS, ret, pipeVars, sideVars>>

\* close(resChan)
CloseResChan ==
  /\ closer = "close(resChan)"
  /\ resChan' = "closed"
  /\ closer' = "close(errChan)"
  /\ UNCHANGED <<walkTree, gpc, listers, resCollector, errCollector, errChan, pwg,
                 cwg, result, errors, visited, failedP, failedS, ret, pipeVars, sideVars>>

\* close(errChan) and the deferred cwg.Done()
CloseErrChan ==
  /\ closer = "close(errChan)"
  /\ errChan' = "closed"
  /\ cwg' = cwg - 1
  /\ closer' = "done"
  /\ UNCHANGED <<walkTree, gpc, listers, resCollector, errCollector, resChan, pwg,
                 result, errors, visited, failedP, failedS, ret, pipeVars, sideVars>>

\* for project := range resChan ends on the closed channel; cwg.Done()
ResultCollectorExit ==
  /\ resCollector = "range resChan"
  /\ resChan = "closed"
  /\ resCollector' = "done"
  /\ cwg' = cwg - 1
  /\ UNCHANGED <<walkTree, gpc, listers, closer, errCollector, channels, pwg, result,
                 errors, visited, failedP, failedS, ret, pipeVars, sideVars>>

\* for err := range errChan ends on the closed channel; cwg.Done()
ErrorCollectorExit ==
  /\ errCollector = "range errChan"
  /\ errChan = "closed"
  /\ errCollector' = "done"
  /\ cwg' = cwg - 1
  /\ UNCHANGED <<walkTree, gpc, listers, closer, resCollector, channels, pwg, result,
                 errors, visited, failedP, failedS, ret, pipeVars, sideVars>>

NextWalk ==
  \/ GetGroupByPath
  \/ ListRoot
  \/ SpawnCollectors
  \/ WalkReturns
  \/ \E g \in Groups : ListGroupProjects(g)
  \/ \E g \in Groups : SendProjectsError(g)
  \/ \E g \in Groups : SendProject(g)
  \/ \E g \in Groups : ListSubGroups(g)
  \/ \E g \in Groups : SendSubGroupsError(g)
  \/ \E g \in Groups : Recurse(g)
  \/ CloserWait
  \/ CloseResChan
  \/ CloseErrChan
  \/ ResultCollectorExit
  \/ ErrorCollectorExit

SpecWalk == InitWalk /\ [][NextWalk]_vars

(***************************************************************************)
(* The older GetActiveGitlabProjects of src/unnamed/part_007: it walks the *)
(* tree in one goroutine, gives up at the first failed request, and drops  *)
(* archived projects only.  It returns one error; ret holds it as a list   *)
(* of at most one error.                                                   *)
(***************************************************************************)
\* the requests that fail, fixed before the walk: the groups whose project listing
\* and whose subgroup listing fail
FailingRequests == (SUBSET Groups) \X (SUBSET Groups)

\* listProjectsRecursively(gl, group) of part_007 when the requests of fp and fs
\* fail: [projects, err]; listSubgroups is its loop over the subgroups left
RECURSIVE listProjectsRecursively(_, _, _), listSubgroups(_, _, _, _)
listProjectsRecursively(g, fp, fs) ==
  IF g \in fp
  THEN [projects |-> <<>>, err |-> Ref(ListError(g, "ListGroupProjects"))]
  ELSE IF g \in fs
  THEN [projects |-> <<>>, err |-> Ref(ListError(g, "ListSubGroups"))]
  ELSE listSubgroups(GroupProjects(g), SubGroups(g), fp, fs)

listSubgroups(projects, subgroups, fp, fs) ==
  IF subgroups = <<>>
  THEN [projects |-> projects, err |-> NilPtr]
  ELSE LET sub == listProjectsRecursively(Head(subgroups), fp, fs)
       IN  IF sub.err # NilPtr
           THEN [projects |-> <<>>, err |-> sub.err]
           ELSE listSubgroups(projects \o sub.projects, Tail(subgroups), fp, fs)

InitSeq ==
  /\ variant = "part_007"
  /\ localPath = "/home/u/Projects"
  /\ gitlabProjects = <<>> /\ localProjects = <<>>
  /\ mainErr = NilPtr
  /\ confirm = <<>>
  /\ numWorkers = 0
  /\ mpc = "GetActiveGitlabProjects"
  /\ NoTasks
  /\ PoolIdle
  /\ parent \in Trees
  /\ kinds \in Ownerships
  /\ \E f \in FailingRequests : failedP = f[1] /\ failedS = f[2]
  /\ gpc = "seq.getGroupByPath"
  /\ ppc = [g \in Groups |-> "none"]
  /\ spc = [g \in Groups |-> "none"]
  /\ plist = [g \in Groups |-> <<>>]
  /\ slist = [g \in Groups |-> <<>>]
  /\ pwg = 0 /\ cwg = 0 /\ resChan = "none" /\ errChan = "none"
  /\ closer = "none" /\ resCollector = "none" /\ errCollector = "none"
  /\ result = <<>> /\ errors = <<>> /\ visited = <<>>
  /\ ret = NilPtr
  /\ SideIdle

\* group, err := getGroupByPath(gl.client, groupPath) and the two early returns
SeqGetGroupByPath ==
  /\ gpc = "seq.getGroupByPath"
  /\ \E outcome \in {"error", "nil", "found"} :
       IF outcome = "found"
       THEN /\ gpc' = "seq.listProjectsRecursively"
            /\ ret' = ret
       ELSE /\ gpc' = "returned early"
            /\ ret' = Ref([result |-> <<>>,
                           errors |-> <<[group |-> -1, request |-> outcome]>>])
  /\ UNCHANGED <<walkTree, listers, collectors, channels, pwg, cwg, result, errors,
                 visited, failedP, failedS, pipeVars, sideVars>>

\* gitlabProjects, err := listProjectsRecursively(gl.client, group) and the return
\* on its error; plist[RootGroup] holds gitlabProjects
SeqListProjects ==
  /\ gpc = "seq.listProjectsRecursively"
  /\ LET listed == listProjectsRecursively(RootGroup, failedP, failedS)
     IN  IF listed.err # NilPtr
         THEN /\ gpc' = "returned early"
              /\ ret' = Ref([result |-> <<>>, errors |-> <<Deref(listed.err)>>])
              /\ plist' = plist
         ELSE /\ gpc' = "seq.range gitlabProjects"
              /\ ret' = ret
              /\ plist' = [plist EXCEPT ![RootGroup] = listed.projects]
  /\ UNCHANGED <<walkTree, ppc, spc, slist, collectors, channels, pwg, cwg, result,
                 errors, visited, failedP, failedS, pipeVars, sideVars>>

\* one turn of for _, project := range gitlabProjects: the project is appended if
\* it is not archived
SeqAppendProject ==
  /\ gpc = "seq.range gitlabProjects"
  /\ plist[RootGroup] # <<>>
  /\ result' = IF ~Head(plist[RootGroup]).Archived
               THEN Append(result, Project(Head(plist[RootGroup])))
               ELSE result
  /\ plist' = [plist EXCEPT ![RootGroup] = Tail(plist[RootGroup])]
  /\ UNCHANGED <<walkTree, gpc, ppc, spc, slist, collectors, channels, pwg, cwg,
                 errors, visited, failedP, failedS, ret, pipeVars, sideVars>>

\* return projects, nil
SeqReturns ==
  /\ gpc = "seq.range gitlabProjects"
  /\ plist[RootGroup] = <<>>
  /\ gpc' = "returned"
  /\ ret' = Ref([result |-> result, errors |-> <<>>])
  /\ UNCHANGED <<walkTree, listers, collectors, channels, pwg, cwg, result, errors,
                 visited, failedP, failedS, pipeVars, sideVars>>

NextSeq ==
  \/ SeqGetGroupByPath
  \/ SeqListProjects
  \/ SeqAppendProject
  \/ SeqReturns

SpecSeq == InitSeq /\ [][NextSeq]_vars

(***************************************************************************)
(* main() of cmd/main.go from the discovery on: GetActiveGitlabProjects of *)
(* pkg/gitlab walks the groups, GetLocalProjects of pkg/git scans the      *)
(* local directory, then createTasks and executeTasks run as in SpecExec.  *)
(* log.Fatalf ends the process with status 1; main returning ends it with  *)
(* status 0.                                                               *)
(***************************************************************************)
\* cfg.Workers in the runs of SpecMain
MainWorkers == 1

\* path segments joined with "/", the string the Go code holds
RECURSIVE Join(_)
Join(path) ==
  IF path = <<>> THEN ""
  ELSE IF Len(path) = 1 THEN path[1]
  ELSE path[1] \o "/" \o Join(Tail(path))

\* the gitlab.Project of pkg/gitlab as main sees it, with its paths as strings
AsStrings(project) ==
  [Path |-> Join(project.Path),
   DefaultBranch |-> project.DefaultBranch,
   CloneUrl |-> project.CloneUrl[1] \o ":" \o Join(project.CloneUrl[2]) \o ".git"]

\* what filepath.WalkDir finds below cfg.Path.Local: nothing, or a clone of the
\* root group's first project on either branch
LocalScans ==
  {<<>>} \cup {<<LocalProject("p1", b)>> : b \in Branches}

\* the error of a failed WalkDir callback or repo.Head()
ScanErrors == {NilPtr, Ref("permission denied")}

\* the group tree of the runs of SpecMain: the chain below the root, in which a
\* failed listing cuts off the most
MainTrees == {p \in Trees : \A g \in 1..MaxGroup : p[g] = g - 1}

InitMain ==
  /\ variant = "cmd"
  /\ localPath = "/home/u/Projects"
  /\ gitlabProjects = <<>> /\ localProjects = <<>>
  /\ mainErr = NilPtr
  /\ confirm = <<>>
  /\ numWorkers = MainWorkers
  /\ mpc = "GetActiveGitlabProjects"
  /\ NoTasks
  /\ PoolIdle
  /\ parent \in MainTrees
  /\ kinds \in Ownerships
  /\ gpc = "getGroupByPath"
  /\ ppc = [g \in Groups |-> "none"]
  /\ spc = [g \in Groups |-> "none"]
  /\ plist = [g \in Groups |-> <<>>]
  /\ slist = [g \in Groups |-> <<>>]
  /\ pwg = 0 /\ cwg = 0 /\ resChan = "none" /\ errChan = "none"
  /\ closer = "none" /\ resCollector = "none" /\ errCollector = "none"
  /\ result = <<>> /\ errors = <<>> /\ visited = <<>>
  /\ failedP = {} /\ failedS = {} /\ ret = NilPtr
  /\ SideIdle

\* what main leaves alone while it discovers the projects
poolAndTasks == <<variant, localPath, confirm, numWorkers, tasks, initial, openTasks,
                  taskState, history, spawned, loaded, taskQueue, closed, wg, wpc, wtask,
                  wret, wlines>>

\* GetActiveGitlabProjects has returned to main: its locals and channels are gone,
\* the groups of the GitLab instance stay
WalkGone ==
  /\ gpc' = "none"
  /\ ppc' = [g \in Groups |-> "none"]
  /\ spc' = [g \in Groups |-> "none"]
  /\ plist' = [g \in Groups |-> <<>>]
  /\ slist' = [g \in Groups |-> <<>>]
  /\ pwg' = 0 /\ cwg' = 0 /\ resChan' = "none" /\ errChan' = "none"
  /\ closer' = "none" /\ resCollector' = "none" /\ errCollector' = "none"
  /\ result' = <<>> /\ errors' = <<>> /\ visited' = <<>>
  /\ failedP' = {} /\ failedS' = {} /\ ret' = NilPtr
  /\ UNCHANGED <<walkTree, sideVars>>

\* main going on whatever GetActiveGitlabProjects returned
MainGitlabProjectsIgnoresErrors ==
  /\ mpc = "GetActiveGitlabProjects"
  /\ ret # NilPtr
  /\ gitlabProjects' = [i \in DOMAIN Deref(ret).result |-> AsStrings(Deref(ret).result[i])]
  /\ mainErr' = Deref(ret).errors
  /\ mpc' = "GetLocalProjects"
  /\ UNCHANGED <<walkVars, sideVars>>
  /\ UNCHANGED <<localProjects, poolAndTasks>>

\* gitlabProjects, err := gl.GetActiveGitlabProjects(cfg.Path.Gitlab) has returned;
\* if err != nil { log.Fatalf(...) }.  A nil slice of errors is the empty sequence.
MainGitlabProjects ==
  /\ mpc = "GetActiveGitlabProjects"
  /\ ret # NilPtr
  /\ gitlabProjects' = [i \in DOMAIN Deref(ret).result |-> AsStrings(Deref(ret).result[i])]
  /\ mainErr' = Deref(ret).errors
  /\ IF Deref(ret).errors # NilPtr
     THEN mpc' = "fatal" /\ UNCHANGED <<walkVars, sideVars>>
     ELSE mpc' = "GetLocalProjects" /\ WalkGone
  /\ UNCHANGED <<localProjects, poolAndTasks>>

\* localProjects, err := git.GetLocalProjects(cfg.Path.Local): the projects found
\* until the walk ended, and its error; if err != nil { log.Fatalf(...) }
MainLocalProjects ==
  /\ mpc = "GetLocalProjects"
  /\ \E scan \in LocalScans, e \in ScanErrors :
       /\ localProjects' = scan
       /\ mainErr' = e
       /\ mpc' = IF e # NilPtr THEN "fatal" ELSE "cmd.createTasks"
  /\ UNCHANGED <<gitlabProjects, poolAndTasks>>
  /\ UNCHANGED <<walkVars, sideVars>>

NextMain ==
  \/ NextWalk
  \/ MainGitlabProjects
  \/ MainLocalProjects
  \/ NextExec

SpecMain == InitMain /\ [][NextMain]_vars

\* the exit status of the process once it has ended: 1 from log.Fatalf, 0 when
\* main returns
ExitStatus == IF mpc = "fatal" THEN 1 ELSE 0

(***************************************************************************)
(* pkg/git: GetLocalProjects walks the directory tree below localPath with *)
(* filepath.WalkDir.  WalkDir calls the callback for an entry before it    *)
(* reads the entry's directory, visits the entries of a directory in       *)
(* lexical order, leaves a directory alone when the callback returns       *)
(* SkipDir, calls the callback a second time with the error when the       *)
(* directory cannot be read, and stops at the first other error.           *)
(***************************************************************************)
Entries == 0..MaxDir
ScanRoot == 0

\* what an entry can be: a file, a plain directory, a directory that cannot be
\* read, a working copy, or a working copy whose HEAD names no commit yet
EntryKinds == {"file", "dir", "locked", "repo", "unborn"}
WorkingCopies == {"repo", "unborn"}

\* the directory trees with root 0; a file holds nothing
FsTrees == {p \in [1..MaxDir -> Entries] : \A d \in 1..MaxDir : p[d] < d}
FsKinds(p) == {k \in [Entries -> EntryKinds] : \A d \in 1..MaxDir : k[p[d]] # "file"}

\* the path of an entry, as segments below localPath
RECURSIVE EntryPath(_)
EntryPath(d) ==
  IF d = ScanRoot THEN <<localPath>>
  ELSE Append(EntryPath(fsParent[d]), "d" \o ToString(d))

\* os.ReadDir(path): the entries of directory d, sorted by name
Children(d) == SelectSeq([i \in 1..MaxDir |-> i], LAMBDA e : fsParent[e] = d)

\* repo.Head() of a working copy, and headRef.Name().Short()
HeadRef(d) == <<"refs", "heads", IF d % 2 = 0 THEN "main" ELSE "hotfix">>
Short(ref) ==
  IF Len(ref) > 2 /\ ref[1] = "refs" /\ ref[2] \in {"heads", "tags"}
  THEN Join(SubSeq(ref, 3, Len(ref)))
  ELSE Join(ref)

\* &Project{Path: strings.TrimPrefix(path, localPath+"/"), Branch: ...}
FoundProject(d) ==
  [Path |-> Join(TrimPrefix(EntryPath(d), <<localPath>>)),
   Branch |-> Short(HeadRef(d))]

InitScan ==
  /\ variant = "scan"
  /\ localPath = "/home/u/Projects"
  /\ gitlabProjects = <<>> /\ localProjects = <<>>
  /\ mainErr = NilPtr
  /\ confirm = <<>>
  /\ numWorkers = 0
  /\ mpc = "GetLocalProjects"
  /\ NoTasks
  /\ PoolIdle
  /\ WalkIdle
  /\ fsParent \in FsTrees
  /\ fsKind \in FsKinds(fsParent)
  /\ pending = <<ScanRoot>>
  /\ scanPc = "walkDirFn" /\ scanDir = ScanRoot
  /\ scanProjects = <<>> /\ scanErr = NilPtr /\ calls = <<>>
  /\ LineIdle
  /\ DeleteIdle
  /\ RenderIdle

fsTree == <<fsParent, fsKind>>

\* the callback treating a directory that does not open as a working copy as an
\* error
WalkDirFnOpenFails ==
  /\ scanPc = "walkDirFn"
  /\ pending # <<>>
  /\ LET d == Head(pending)
     IN /\ calls' = Append(calls, <<d, NilPtr>>)
        /\ scanDir' = d
        /\ CASE fsKind[d] = "file" ->
                  /\ pending' = Tail(pending)
                  /\ UNCHANGED <<scanPc, scanProjects, scanErr>>
             [] fsKind[d] \in {"dir", "locked"} ->
                  /\ scanErr' = Ref("repository does not exist")
                  /\ pending' = <<>>
                  /\ UNCHANGED <<scanPc, scanProjects>>
             [] fsKind[d] = "repo" ->
                  /\ scanProjects' = Append(scanProjects, FoundProject(d))
                  /\ pending' = Tail(pending)
                  /\ UNCHANGED <<scanPc, scanErr>>
             [] fsKind[d] = "unborn" ->
                  /\ scanErr' = Ref("reference not found")
                  /\ pending' = <<>>
                  /\ UNCHANGED <<scanPc, scanProjects>>
  /\ UNCHANGED <<fsTree, pipeVars, walkVars, besideScan>>

\* WalkDir calls the callback for the next entry, err == nil: a file is passed over;
\* a directory git.PlainOpen cannot open is left to WalkDir to read; a working copy
\* is appended with the branch of its HEAD and skipped (filepath.SkipDir), unless
\* repo.Head() fails, which ends the walk with that error
WalkDirFn ==
  /\ scanPc = "walkDirFn"
  /\ pending # <<>>
  /\ LET d == Head(pending)
     IN /\ calls' = Append(calls, <<d, NilPtr>>)
        /\ scanDir' = d
        /\ CASE fsKind[d] = "file" ->
                  /\ pending' = Tail(pending)
                  /\ UNCHANGED <<scanPc, scanProjects, scanErr>>
             [] fsKind[d] \in {"dir", "locked"} ->
                  /\ scanPc' = "ReadDir"
                  /\ pending' = Tail(pending)
                  /\ UNCHANGED <<scanProjects, scanErr>>
             [] fsKind[d] = "repo" ->
                  /\ scanProjects' = Append(scanProjects, FoundProject(d))
                  /\ pending' = Tail(pending)
                  /\ UNCHANGED <<scanPc, scanErr>>
             [] fsKind[d] = "unborn" ->
                  /\ scanErr' = Ref("reference not found")
                  /\ pending' = <<>>
                  /\ UNCHANGED <<scanPc, scanProjects>>
  /\ UNCHANGED <<fsTree, pipeVars, walkVars, besideScan>>

\* WalkDir reads the directory the callback returned nil for: its entries are
\* visited next; if it cannot be read the callback is called with the error and
\* returns it (if err != nil { return err }), which ends the walk
ReadDir ==
  /\ scanPc = "ReadDir"
  /\ IF fsKind[scanDir] = "locked"
     THEN /\ calls' = Append(calls, <<scanDir, Ref("permission denied")>>)
          /\ scanErr' = Ref("permission denied")
          /\ pending' = <<>>
     ELSE /\ pending' = Children(scanDir) \o pending
          /\ UNCHANGED <<calls, scanErr>>
  /\ scanPc' = "walkDirFn"
  /\ UNCHANGED <<fsTree, scanDir, scanProjects, pipeVars, walkVars, besideScan>>

\* WalkDir has nothing left to visit; return projects, err
ScanReturns ==
  /\ scanPc = "walkDirFn"
  /\ pending = <<>>
  /\ scanPc' = "returned"
  /\ UNCHANGED <<fsTree, pending, scanDir, scanProjects, scanErr, calls, pipeVars,
                 walkVars, besideScan>>

NextScan ==
  \/ WalkDirFn
  \/ ReadDir
  \/ ScanReturns

SpecScan == InitScan /\ [][NextScan]_vars

(***************************************************************************)
(* pkg/gls: LineWriter.  Write appends p to lw.buf, runs a bufio.Scanner   *)
(* (split function bufio.ScanLines) over the buffer until Scan returns     *)
(* false, calling lw.callback with every token, then resets the buffer and *)
(* writes scanner.Bytes() back into it.  The scanner reads the whole       *)
(* buffer and then end of file.  lw.mu lets one Write run at a time.       *)
(***************************************************************************)
\* the bytes written: a letter, carriage return, newline
Bytes == {"a", "\r", "\n"}

\* the byte slices of at most n bytes
Slices(n) == UNION {[1..k -> Bytes] : k \in 0..n}

\* bytes.IndexByte(data, c) + 1: the place of the first c in data, 0 if there is none
IndexByte(data, c) ==
  IF \E i \in DOMAIN data : data[i] = c
  THEN CHOOSE i \in DOMAIN data : data[i] = c /\ \A j \in 1..(i - 1) : data[j] # c
  ELSE 0

\* dropCR of package bufio
dropCR(data) ==
  IF Len(data) > 0 /\ data[Len(data)] = "\r" THEN SubSeq(data, 1, Len(data) - 1) ELSE data

\* bufio.ScanLines(data, atEOF): how far to advance and the token (NilPtr: none)
ScanLines(data, atEOF) ==
  IF atEOF /\ Len(data) = 0 THEN [advance |-> 0, token |-> NilPtr]
  ELSE IF IndexByte(data, "\n") > 0
  THEN [advance |-> IndexByte(data, "\n"),
        token |-> Ref(dropCR(SubSeq(data, 1, IndexByte(data, "\n") - 1)))]
  ELSE IF atEOF THEN [advance |-> Len(data), token |-> Ref(dropCR(data))]
  ELSE [advance |-> 0, token |-> NilPtr]

\* the tokens of the calls of scanner.Scan() that return true, on a reader holding
\* data: tokens are split off while ScanLines finds one; when it asks for more the
\* reader is at end of file and ScanLines is called once more with atEOF
RECURSIVE ScanTokens(_)
ScanTokens(data) ==
  IF ScanLines(data, FALSE).token # NilPtr
  THEN <<Deref(ScanLines(data, FALSE).token)>>
         \o ScanTokens(SubSeq(data, ScanLines(data, FALSE).advance + 1, Len(data)))
  ELSE IF ScanLines(data, TRUE).token # NilPtr
  THEN <<Deref(ScanLines(data, TRUE).token)>>
  ELSE <<>>

\* scanner.Bytes() after the loop: the call of Scan that returned false got no
\* token from ScanLines and stored that as the scanner's token
ScannerBytes(data) == <<>>

InitLine ==
  /\ variant = "lw"
  /\ localPath = "/home/u/Projects"
  /\ gitlabProjects = <<>> /\ localProjects = <<>>
  /\ mainErr = NilPtr
  /\ confirm = <<>>
  /\ numWorkers = 0
  /\ mpc = "none"
  /\ NoTasks
  /\ PoolIdle
  /\ WalkIdle
  /\ ScanIdle
  /\ lwBuf = <<>> /\ lwCalls = <<>> /\ written = <<>>
  /\ DeleteIdle
  /\ RenderIdle

\* Write keeping what follows the last newline in lw.buf
WriteKeepsPartialLine(p) ==
  /\ Len(written) < MaxBytes
  /\ Len(Flatten(written)) + Len(p) <= MaxBytes
  /\ LET data == lwBuf \o p
         last == IF \E i \in DOMAIN data : data[i] = "\n"
                 THEN CHOOSE i \in DOMAIN data :
                        data[i] = "\n" /\ \A j \in (i + 1)..Len(data) : data[j] # "\n"
                 ELSE 0
     IN /\ lwCalls' = lwCalls \o ScanTokens(SubSeq(data, 1, last))
        /\ lwBuf' = SubSeq(data, last + 1, Len(data))
  /\ written' = Append(written, p)
  /\ UNCHANGED <<pipeVars, walkVars, besideLine>>

\* lw.Write(p): lw.buf.Write(p); for scanner.Scan() { lw.callback(scanner.Text()) };
\* lw.buf.Reset(); remaining := scanner.Bytes(); lw.buf.Write(remaining)
Write(p) ==
  /\ Len(written) < MaxBytes
  /\ Len(Flatten(written)) + Len(p) <= MaxBytes
  /\ LET data == lwBuf \o p
     IN /\ lwCalls' = lwCalls \o ScanTokens(data)
        /\ lwBuf' = ScannerBytes(data)
  /\ written' = Append(written, p)
  /\ UNCHANGED <<pipeVars, walkVars, besideLine>>

NextLine == \E p \in Slices(MaxBytes) : Write(p)

SpecLine == InitLine /\ [][NextLine]_vars

(***************************************************************************)
(* Properties of the worker pool RunTasks, checked under Spec.             *)
(***************************************************************************)
\* RunTasks has returned to main()
RunReturned == mpc \in {"report", "exit"}

\* the tasks handed to RunTasks
Dispatched == Range(openTasks)

\* C1: for every list of distinct open tasks and every worker count W >= 1,
\* RunTasks calls the work function exactly once per task: at no time has a task
\* been received or run twice, no two workers hold the same task, and when
\* RunTasks has returned every task of the list has been received once and run once.
C1_EachTaskRunOnce ==
  /\ \A t \in TaskIds : dequeued[t] <= 1 /\ invoked[t] <= 1
  /\ \A w1, w2 \in Workers : (w1 # w2 /\ wtask[w1] # 0) => wtask[w1] # wtask[w2]
  /\ \A i, j \in DOMAIN taskQueue : i # j => taskQueue[i] # taskQueue[j]
  /\ (RunReturned /\ numWorkers >= 1) =>
       \A t \in Dispatched : dequeued[t] = 1 /\ invoked[t] = 1

\* three tasks shared by two workers have each been run once when RunTasks returns
C1_Witness ==
  /\ RunReturned /\ numWorkers = 2 /\ Len(openTasks) = 3
  /\ \A t \in Dispatched : dequeued[t] = 1 /\ invoked[t] = 1

\* C2: in every state of a run with W >= 1 workers, at most W tasks have status
\* Progressing and at most W calls of the work function are in flight.
C2_AtMostWProgressing ==
  numWorkers >= 1 =>
    /\ Cardinality({t \in TaskIds : status[t] = Progressing}) <= numWorkers
    /\ Cardinality({w \in Workers : wpc[w] = "work"}) <= numWorkers

\* a single worker faces a second task that waits while the first is Progressing
C2_Witness ==
  /\ numWorkers = 1 /\ Len(openTasks) >= 2
  /\ Cardinality({t \in TaskIds : status[t] = Progressing}) = 1
  /\ taskQueue # <<>>

\* C3: when RunTasks has returned (W >= 1), every task of the list it was given is
\* Completed, in that state and in every later one.
C3_AllCompletedOnReturn ==
  (RunReturned /\ numWorkers >= 1) => \A t \in Dispatched : status[t] = Completed

\* main() has printed its report after a run of two or more tasks, all Completed
C3_Witness ==
  /\ mpc = "exit" /\ numWorkers >= 1 /\ Len(openTasks) >= 2
  /\ \A t \in Dispatched : status[t] = Completed

\* C4: isolation. A worker leaves only when the queue is closed and drained, and
\* when some task's work call returned an error, every task of the list has still
\* been received, is Completed after the run, and holds what its own call returned.
C4_FailureIsolated ==
  /\ \A w \in Workers : wpc[w] = "exit" => (closed /\ taskQueue = <<>>)
  /\ (RunReturned /\ numWorkers >= 1 /\ \E f \in Dispatched : returned[f] = ErrFailed) =>
       \A t \in Dispatched :
         /\ dequeued[t] = 1
         /\ status[t] = Completed
         /\ returned[t] \in WorkResults
         /\ error[t] = returned[t]

\* one task of three failed, the other two succeeded and ended with no error
C4_Witness ==
  /\ RunReturned /\ numWorkers >= 1 /\ Len(openTasks) = 3
  /\ Cardinality({t \in Dispatched : returned[t] = ErrFailed /\ error[t] = ErrFailed}) = 1
  /\ Cardinality({t \in Dispatched : returned[t] = Nil /\ error[t] = Nil
                                       /\ status[t] = Completed}) = 2

\* C5: a task whose work call returned an error is not run again, and after the
\* run it is Completed with that error in its error field.
C5_FailedTaskCompletes ==
  \A t \in TaskIds :
    returned[t] = ErrFailed =>
      /\ invoked[t] = 1
      /\ status[t] \in {Progressing, Completed}
      /\ status[t] = Completed => error[t] = ErrFailed
      /\ RunReturned => status[t] = Completed

\* a failed task is Completed and holds its error while another task is still queued
C5_Witness ==
  \E t \in TaskIds :
    /\ returned[t] = ErrFailed /\ status[t] = Completed /\ error[t] = ErrFailed
    /\ invoked[t] = 1
    /\ taskQueue # <<>>

\* C6: over a whole run a task's status only moves forward: Open to Open or
\* Progressing, Progressing to Progressing or Completed, Completed to Completed.
C6_StatusMonotonic ==
  [][\A t \in TaskIds :
       /\ status[t] = Open => status'[t] \in {Open, Progressing}
       /\ status[t] = Progressing => status'[t] \in {Progressing, Completed}
       /\ status[t] = Completed => status'[t] = Completed]_vars

\* a dispatched task reached Completed through Progressing beside a task created Completed
C6_Witness ==
  /\ \E t \in Dispatched : status[t] = Completed /\ t \in wasProgressing
  /\ \E t \in TaskIds : t \notin Dispatched /\ status[t] = Completed

(***************************************************************************)
(* Properties of tasks created skipped and of the error field, checked     *)
(* under SpecBoth and SpecExec.                                            *)
(***************************************************************************)
\* the task was created skipped: created Completed by the gls.Task variant, created
\* with Skipped set by cmd/main.go
PreSkipped(t) ==
  IF variant = "gls" THEN initial[t].status = Completed ELSE tasks[t].Skipped

\* the task is on the queue or in a worker's hands, or has been
Handled(t) ==
  \/ dequeued[t] > 0
  \/ \E i \in DOMAIN taskQueue : taskQueue[i] = t
  \/ \E w \in Workers : wtask[w] = t

C8_AsStated ==
  [][\A t \in TaskIds :
       /\ errWrites'[t] # errWrites[t] =>
            /\ errWrites[t] = 0
            /\ \E w \in Workers : wtask[w] = t
            /\ returned[t] # "none"
            /\ status[t] = Progressing
       /\ status[t] = Completed => error'[t] = error[t]]_vars

(***************************************************************************)
(* Properties of GetActiveGitlabProjects, checked under SpecWalk.          *)
(***************************************************************************)
\* the walk ran and GetActiveGitlabProjects returned result, errors
WalkReturned == gpc = "returned"

\* g lies below a group whose subgroup listing failed
RECURSIVE CutOff(_)
CutOff(g) ==
  /\ g # RootGroup
  /\ parent[g] \in failedS \/ CutOff(parent[g])

\* g has subgroups
Interior(g) == \E h \in Groups \ {RootGroup} : parent[h] = g

\* the groups with a failed listing request
Failing == failedP \cup failedS

\* how many times e occurs in the sequence s
Count(s, e) == Cardinality({i \in DOMAIN s : s[i] = e})

\* C9: whatever listing requests fail, the returned result holds every project that
\* passes the collector's test (not archived, not shared) of every group that is not
\* below a failed subgroup listing and whose own project listing did not fail, and
\* the returned errors hold the error of every failed request.
C9_PartialResults ==
  WalkReturned =>
    /\ \A g \in Groups :
         (~CutOff(g) /\ g \notin failedP) =>
           \A p \in Range(GroupProjects(g)) :
             Active(p) => Project(p) \in Range(Deref(ret).result)
    /\ \A g \in failedP :
         ListError(g, "ListGroupProjects") \in Range(Deref(ret).errors)
    /\ \A g \in failedS :
         ListError(g, "ListSubGroups") \in Range(Deref(ret).errors)

\* both listings of a subgroup failed; the project of a sibling of it is returned,
\* with the two errors
C9_Witness ==
  /\ WalkReturned
  /\ \E g \in (failedP \cap failedS) \ {RootGroup} :
       \E h \in Groups \ (Failing \cup {RootGroup}) :
         /\ parent[h] = parent[g]
         /\ \E p \in Range(GroupProjects(h)) :
              Active(p) /\ Project(p) \in Range(Deref(ret).result)
  /\ Len(Deref(ret).errors) >= 2

\* C10 as stated: when exactly one group fails and it has subgroups, whichever of
\* its requests fail, exactly one error is returned and it is that group's; when no
\* request fails no error is returned.
C10_AsStated ==
  WalkReturned =>
    /\ \A g \in Groups :
         (Failing = {g} /\ Interior(g)) =>
           /\ Len(Deref(ret).errors) = 1
           /\ Deref(ret).errors[1].group = g
    /\ Failing = {} => Deref(ret).errors = <<>>

\* C10 as amended: the returned errors hold exactly one error per failed listing
\* request and nothing else; for a single failing group that is one error if one of
\* its two requests failed and two if both did, and with no failed request the
\* error list is empty.
C10_OneErrorPerFailedRequest ==
  WalkReturned =>
    /\ Len(Deref(ret).errors) = Cardinality(failedP) + Cardinality(failedS)
    /\ \A g \in failedP : Count(Deref(ret).errors, ListError(g, "ListGroupProjects")) = 1
    /\ \A g \in failedS : Count(Deref(ret).errors, ListError(g, "ListSubGroups")) = 1

\* the only failing group has subgroups and lost both of its listings: two errors
C10_Witness ==
  /\ WalkReturned
  /\ \E g \in Groups :
       /\ Interior(g) /\ Failing = {g}
       /\ g \in failedP \cap failedS
       /\ Len(Deref(ret).errors) = 2

\* C11 as stated: when no listing request fails, every project that a group of
\* the tree owns and that is not archived, those shared with other groups
\* included, is returned exactly once.
C11_AsStated ==
  (WalkReturned /\ Failing = {}) =>
    \A g \in Groups :
      \A i \in DOMAIN kinds[g] :
        ~ApiProject(g, i).Archived =>
          Count(Deref(ret).result, Project(ApiProject(g, i))) = 1

\* the gitlab.Project records the API can return for the tree
ApiProjects == UNION {Range(Owned(g)) : g \in Groups}

\* C12 as stated: no returned project is archived, none is returned for a listing
\* it was only shared into (so none is returned more often than its one owner
\* lists it), and no two returned projects have the same path.
C12_AsStated ==
  gpc = "returned" =>
    /\ \A p \in ApiProjects :
         /\ p.Archived => Project(p) \notin Range(Deref(ret).result)
         /\ Count(Deref(ret).result, Project(p)) <= 1
    /\ \A i, j \in DOMAIN Deref(ret).result :
         i # j => Deref(ret).result[i].Path # Deref(ret).result[j].Path

\* the projects the projects goroutine of g has sent on resChan so far
SentProjects(g) ==
  IF ppc[g] \in {"resChan <-", "done"} /\ g \notin failedP
  THEN LET projects == GroupProjects(g)
       IN SubSeq(projects, 1, Len(projects) - Len(plist[g]))
  ELSE <<>>

\* the projects sent so far that pass the collector's test, over the groups 0..g
RECURSIVE ActiveSent(_)
ActiveSent(g) ==
  IF g < 0 THEN <<>>
  ELSE ActiveSent(g - 1) \o SelectSeq(SentProjects(g), Active)

\* the errors the goroutines have sent on errChan so far
SentErrors ==
  {ListError(g, "ListGroupProjects") : g \in {h \in failedP : ppc[h] = "done"}}
    \cup {ListError(g, "ListSubGroups") :
            g \in {h \in failedS : spc[h] \in {"listProjectsRecursively", "done"}}}

\* every project and error sent so far is in result or errors, once
NothingLost ==
  LET sent == ActiveSent(MaxGroup)
      sentErrors == SentErrors
  IN /\ Len(result) = Len(sent)
     /\ \A p \in Range(sent) : Count(result, Project(p)) = 1
     /\ Len(errors) = Cardinality(sentErrors)
     /\ \A e \in sentErrors : Count(errors, e) = 1

\* every goroutine of listProjectsRecursively has ended
ProducersDone ==
  \A g \in Groups : ppc[g] \in {"none", "done"} /\ spc[g] \in {"none", "done"}

\* C13: result only ever grows by one element appended while the result collector
\* is ranging over the open resChan, errors likewise with the error collector, so
\* each list has a single writer; and GetActiveGitlabProjects reads the two lists
\* for its return only when every producer goroutine has ended and both collectors
\* have left their loops, with no project or error that was sent lost.
C13_SingleCollectorNothingLost ==
  [][/\ result' # result =>
          /\ resCollector = "range resChan" /\ resChan = "open"
          /\ \E p \in ApiProjects : result' = Append(result, Project(p))
     /\ errors' # errors =>
          /\ errCollector = "range errChan" /\ errChan = "open"
          /\ \E e \in SentErrors' : errors' = Append(errors, e)
     /\ (gpc # "returned" /\ gpc' = "returned") =>
          /\ ProducersDone
          /\ NothingLost
          /\ UNCHANGED <<result, errors>>
          /\ closer = "done" /\ resCollector = "done" /\ errCollector = "done"
          /\ pwg = 0 /\ cwg = 0
          /\ ret' = Ref([result |-> result, errors |-> errors])]_vars

\* two goroutines wait to send a project and one waits to send an error while the
\* collectors have already taken a project and an error
C13_Witness ==
  /\ \E g, h \in Groups : g # h /\ ppc[g] = "resChan <-" /\ ppc[h] = "resChan <-"
  /\ \E g \in Groups : spc[g] = "errChan <-"
  /\ result # <<>> /\ errors # <<>>

(***************************************************************************)
(* Properties of createTasks, checked under SpecCreate.                    *)
(***************************************************************************)
\* createTasks has returned
Created == mpc \in {"FilterTasks", "executeTasks"}

\* the logical path of a task
TaskKey(t) == IF variant = "gls" THEN tasks[t].Path ELSE tasks[t].Key

\* the local filesystem path of a task
FsPath(t) == IF variant = "gls" THEN tasks[t].LocalPath ELSE tasks[t].Path

InRemote(key) == \E i \in DOMAIN gitlabProjects : gitlabProjects[i].Path = key
InLocal(key) == \E i \in DOMAIN localProjects : localProjects[i].Path = key

\* the distinct paths of the two lists
DistinctPaths == {key \in SmallPaths : InRemote(key) \/ InLocal(key)}

\* C14: for all remote and local lists, repeated paths included, createTasks makes
\* as many tasks as the two lists have distinct paths, and the tasks' paths are
\* exactly those paths: none twice, none left out.
C14_OneTaskPerPath ==
  Created =>
    /\ Len(tasks) = Cardinality(DistinctPaths)
    /\ {TaskKey(t) : t \in TaskIds} = DistinctPaths
    /\ \A t, u \in TaskIds : TaskKey(t) = TaskKey(u) => t = u

\* the remote list repeats a path that the local list has too, and another path
\* is listed: two tasks from more than two descriptors
C14_Witness ==
  /\ Created
  /\ \E i, j \in DOMAIN gitlabProjects :
       /\ i # j /\ gitlabProjects[i].Path = gitlabProjects[j].Path
       /\ InLocal(gitlabProjects[i].Path)
  /\ Len(tasks) = 2
  /\ Len(gitlabProjects) + Len(localProjects) > 3

\* C16: a path only in the remote list gets a Clone task that is created Open and
\* not skipped; a path only in the local list gets a Delete task.
C16_CloneOrDelete ==
  Created =>
    \A t \in TaskIds :
      /\ (InRemote(TaskKey(t)) /\ ~InLocal(TaskKey(t))) =>
           /\ tasks[t].Action = Clone
           /\ initial[t].status = Open
           /\ ~PreSkipped(t)
      /\ (~InRemote(TaskKey(t)) /\ InLocal(TaskKey(t))) => tasks[t].Action = Delete

\* a Clone task and a Delete task were created
C16_Witness ==
  /\ Created
  /\ \E t, u \in TaskIds :
       /\ tasks[t].Action = Clone /\ ~InLocal(TaskKey(t))
       /\ tasks[u].Action = Delete /\ ~InRemote(TaskKey(u))

\* C17: every task's local filesystem path is the local root, "/" and the task's
\* logical path; the branch of a Pull or Delete task is the branch of a local
\* project of that path, the branch of a Clone task the default branch of a remote
\* project of that path.
C17_PathAndBranch ==
  Created =>
    \A t \in TaskIds :
      /\ FsPath(t) = localPath \o "/" \o TaskKey(t)
      /\ tasks[t].Action \in {Pull, Delete} =>
           \E i \in DOMAIN localProjects :
             /\ localProjects[i].Path = TaskKey(t)
             /\ localProjects[i].Branch = tasks[t].Branch
      /\ tasks[t].Action = Clone =>
           \E i \in DOMAIN gitlabProjects :
             /\ gitlabProjects[i].Path = TaskKey(t)
             /\ gitlabProjects[i].DefaultBranch = tasks[t].Branch

\* a Pull task of a project whose local branch is not the remote default branch,
\* beside a Clone task
C17_Witness ==
  /\ Created
  /\ \E t \in TaskIds :
       /\ tasks[t].Action = Pull
       /\ tasks[t].Branch = "hotfix"
       /\ \A i \in DOMAIN gitlabProjects :
            gitlabProjects[i].Path = TaskKey(t) => gitlabProjects[i].DefaultBranch = "main"
  /\ \E t \in TaskIds : tasks[t].Action = Clone /\ FsPath(t) = localPath \o "/" \o TaskKey(t)

(***************************************************************************)
(* Properties of the whole run from createTasks on, checked under SpecBoth *)
(* and SpecExec.                                                           *)
(***************************************************************************)
\* the pool (RunTasks or executeTasks) has been entered; it has returned
PoolEntered == mpc \notin {"createTasks", "FilterTasks", "cmd.createTasks"}
PoolReturned == mpc \in {"report", "exit", "cmd.report", "cmd.exit"}

\* the path of the task is on both sides, with equal branches
BothSides(t) == InRemote(TaskKey(t)) /\ InLocal(TaskKey(t))
SameBranch(t) ==
  \E i \in DOMAIN gitlabProjects, j \in DOMAIN localProjects :
    /\ gitlabProjects[i].Path = TaskKey(t) /\ localProjects[j].Path = TaskKey(t)
    /\ gitlabProjects[i].DefaultBranch = localProjects[j].Branch

\* C15: a path on both sides gets a Pull task.  With equal branches it is created
\* Open and not skipped, is handed to the pool, and is pulled once by the time the
\* pool (of at least one worker) returns; with different branches it is created
\* skipped (Completed in the gls.Task variant, Skipped in cmd/main.go) with a
\* non-empty message and no pull is ever executed for it.
C15_PullOrSkippedPull ==
  \A t \in TaskIds :
    BothSides(t) =>
      /\ tasks[t].Action = Pull
      /\ SameBranch(t) =>
           /\ initial[t].status = Open /\ ~PreSkipped(t)
           /\ PoolEntered => t \in Dispatched
           /\ (PoolReturned /\ numWorkers >= 1) => invoked[t] = 1
      /\ ~SameBranch(t) =>
           /\ PreSkipped(t)
           /\ initial[t].message # ""
           /\ invoked[t] = 0

\* a run of cmd/main.go ended with one project pulled and the pull of another,
\* checked out on a different branch, skipped
C15_Witness ==
  /\ mpc = "cmd.exit"
  /\ \E t, u \in TaskIds :
       /\ BothSides(t) /\ SameBranch(t) /\ invoked[t] = 1
       /\ BothSides(u) /\ ~SameBranch(u) /\ tasks[u].Skipped /\ invoked[u] = 0


\* the task is that of a project with a local copy only
LocalOnlyTask(t) == ~InRemote(TaskKey(t)) /\ InLocal(TaskKey(t))

\* C18: in cmd/main.go the user is asked about every local-only project and the task
\* is a Delete.  If the answer is no, the task is created skipped with a non-empty
\* message and its delete is never executed; if it is yes, the task is created Open
\* and not skipped, its delete is executed at most once, and exactly once by the
\* time executeTasks (with at least one worker) has returned.
C18_DeleteAsConfirmed ==
  \A t \in TaskIds :
    (variant = "cmd" /\ LocalOnlyTask(t)) =>
      /\ TaskKey(t) \in DOMAIN confirm
      /\ tasks[t].Action = Delete
      /\ ~confirm[TaskKey(t)] =>
           /\ tasks[t].Skipped
           /\ initial[t].message # ""
           /\ invoked[t] = 0
      /\ confirm[TaskKey(t)] =>
           /\ ~tasks[t].Skipped
           /\ initial[t].status = Open
           /\ invoked[t] <= 1
           /\ (PoolReturned /\ numWorkers >= 1) => invoked[t] = 1

\* a run ended in which the user kept one local-only project and gave up another,
\* which was deleted
C18_Witness ==
  /\ mpc = "cmd.exit"
  /\ \E t, u \in TaskIds :
       /\ LocalOnlyTask(t) /\ ~confirm[TaskKey(t)] /\ tasks[t].Skipped /\ invoked[t] = 0
       /\ LocalOnlyTask(u) /\ confirm[TaskKey(u)] /\ invoked[u] = 1


(***************************************************************************)
(* Properties of main() from the discovery on, checked under SpecMain.     *)
(***************************************************************************)
\* a request of the remote discovery has failed or found no group, or the last
\* discovery call returned an error to main
DiscoveryFailed ==
  \/ gpc = "returned early"
  \/ failedP # {} \/ failedS # {}
  \/ mainErr # NilPtr

\* no task has been created, no worker started and nothing queued
NothingScheduled ==
  /\ tasks = <<>> /\ openTasks = <<>> /\ invoked = <<>>
  /\ spawned = 0 /\ loaded = 0 /\ taskQueue = <<>>
  /\ \A w \in Workers : wpc[w] = "none"

\* C19: once the remote discovery has met any error (group lookup failure, group not
\* found, a failed listing) or the local scan has returned an error, main is still in
\* the discovery or has ended in log.Fatalf: no task has been created or queued and
\* no worker started, so no clone, pull or delete runs, whatever projects were
\* gathered; and log.Fatalf is reached only with an error.
C19_AbortBeforeTasks ==
  /\ DiscoveryFailed => (NothingScheduled /\ mpc \in {"GetActiveGitlabProjects", "fatal"})
  /\ mpc = "fatal" => (mainErr # NilPtr /\ ExitStatus = 1)

\* the run was aborted after a listing failed below the root, with the projects
\* gathered until then in main's hands
C19_Witness ==
  /\ mpc = "fatal"
  /\ failedP \cup failedS # {}
  /\ gitlabProjects # <<>>
  /\ NothingScheduled


\* C20 as stated: a run that has reported ends with a non-zero exit status exactly
\* when a task ended with a non-nil error.
C20_AsStated ==
  mpc = "cmd.exit" => (ExitStatus # 0 <=> \E t \in TaskIds : error[t] # Nil)


\* main has printed its report; the tasks whose error is non-nil; the line printed
\* for task t
Reported == mpc \in {"exit", "cmd.exit"}
Failed == {t \in TaskIds : error[t] # Nil}
ReportLine(t) == <<tasks[t].Action, tasks[t].Path, error[t]>>

\* C21: nothing is reported before the pool has returned; the report then has one
\* line per task whose error is non-nil, in the order of the tasks, each with the
\* action, path and error of its task, and no line for a task that succeeded, was
\* skipped or never ran.
C21_ReportExactlyFailures ==
  /\ report # <<>> => (PoolReturned /\ Reported)
  /\ Reported =>
       /\ Range(report) = Failed
       /\ Len(report) = Cardinality(Failed)
       /\ \A i, j \in DOMAIN report : i < j => report[i] < report[j]
       /\ \A i \in DOMAIN report :
            ReportLine(report[i]) = <<tasks[report[i]].Action, tasks[report[i]].Path,
                                      returned[report[i]]>>
       /\ \A t \in TaskIds :
            (returned[t] \in {Nil, "none"} \/ PreSkipped(t)) => t \notin Range(report)

\* a run has reported one failed task while another task succeeded and a third
\* was skipped
C21_Witness ==
  /\ Reported
  /\ Len(report) = 1
  /\ \E t, u \in TaskIds :
       /\ returned[t] = Nil /\ invoked[t] = 1
       /\ PreSkipped(u) /\ u \notin Range(report)


(***************************************************************************)
(* Properties of GetLocalProjects, checked under SpecScan.                 *)
(***************************************************************************)
\* GetLocalProjects has returned
ScanReturned == scanPc = "returned"

\* the directories above an entry
RECURSIVE Ancestors(_)
Ancestors(d) ==
  IF d = ScanRoot THEN {} ELSE {fsParent[d]} \cup Ancestors(fsParent[d])

\* the working-copy roots below the scan root that no working copy contains
TopWorkingCopies ==
  {d \in Entries \ {ScanRoot} :
     /\ fsKind[d] \in WorkingCopies
     /\ \A a \in Ancestors(d) : fsKind[a] \notin WorkingCopies}

\* the callback was called for entry d
Called(d) == \E i \in DOMAIN calls : calls[i][1] = d

\* a directory could not be read during the walk (an I/O failure)
ReadFailed == \E i \in DOMAIN calls : calls[i][2] # NilPtr

\* the path of entry d relative to the scan root
RelativePath(d) == Join(SubSeq(EntryPath(d), 2, Len(EntryPath(d))))

\* C22 as stated, for every directory tree read without an I/O failure: the walk
\* never enters a working copy, no returned path lies beneath another returned
\* path, and every working-copy root that no working copy contains is returned
\* exactly once with its path relative to the scan root.
C22_AsStated ==
  (ScanReturned /\ ~ReadFailed) =>
    /\ \A d \in Entries : Called(d) => \A a \in Ancestors(d) : fsKind[a] \notin WorkingCopies
    /\ \A d \in TopWorkingCopies :
         Count(scanProjects, FoundProject(d)) = 1 /\ FoundProject(d).Path = RelativePath(d)
    /\ \A d, e \in Entries :
         (FoundProject(d) \in Range(scanProjects) /\ FoundProject(e) \in Range(scanProjects))
           => d \notin Ancestors(e)

\* C23: a directory that does not open as a working copy is never what ends the
\* walk: the callback returns nil for it and WalkDir goes on into it.  The walk
\* ends with an error only after a directory could not be read or a working copy's
\* HEAD could not be resolved; without such an entry GetLocalProjects returns nil
\* and every working copy beneath plain directories is found, once.
C23_PlainDirectoriesTraversed ==
  /\ scanErr # NilPtr =>
       /\ calls # <<>>
       /\ \/ calls[Len(calls)][2] # NilPtr /\ fsKind[calls[Len(calls)][1]] = "locked"
          \/ fsKind[calls[Len(calls)][1]] = "unborn"
  /\ ScanReturned =>
       \A d \in Entries :
         (/\ fsKind[d] = "dir"
          /\ \A a \in Ancestors(d) : fsKind[a] = "dir"
          /\ \A e \in Entries : Called(e) => fsKind[e] \notin {"locked", "unborn"}) =>
           /\ Called(d)
           /\ scanErr = NilPtr
           /\ \A e \in Entries \ {ScanRoot} :
                (fsParent[e] = d /\ fsKind[e] = "repo") =>
                  Count(scanProjects, FoundProject(e)) = 1

\* a scan returned without error a working copy that lies two plain directories
\* below the scan root
C23_Witness ==
  /\ ScanReturned /\ scanErr = NilPtr
  /\ \E e \in Entries \ {ScanRoot} :
       /\ fsKind[e] = "repo"
       /\ fsParent[e] # ScanRoot
       /\ \A a \in Ancestors(e) : fsKind[a] = "dir"
       /\ Count(scanProjects, FoundProject(e)) = 1
       /\ FoundProject(e).Path = RelativePath(e)


(***************************************************************************)
(* Properties of LineWriter, checked under SpecLine.                       *)
(***************************************************************************)
\* the stream written so far
Stream == Flatten(written)

\* the newline-terminated lines of a stream, without their line ends, and what
\* follows the last newline
RECURSIVE CompleteLines(_)
CompleteLines(stream) ==
  IF IndexByte(stream, "\n") = 0 THEN <<>>
  ELSE <<dropCR(SubSeq(stream, 1, IndexByte(stream, "\n") - 1))>>
         \o CompleteLines(SubSeq(stream, IndexByte(stream, "\n") + 1, Len(stream)))
RECURSIVE PartialLine(_)
PartialLine(stream) ==
  IF IndexByte(stream, "\n") = 0 THEN stream
  ELSE PartialLine(SubSeq(stream, IndexByte(stream, "\n") + 1, Len(stream)))

\* C24 as stated: however the stream was split over the calls of Write, the
\* callback has been called once for every newline-terminated line of the stream,
\* in order, and the partial line at its end is held in the buffer, not reported.
C24_AsStated ==
  /\ lwCalls = CompleteLines(Stream)
  /\ lwBuf = PartialLine(Stream)


(***************************************************************************)
(* Properties of the progress sink of the gls variant, checked under Spec. *)
(***************************************************************************)
\* worker w reports a progress line in this step
ReportsLine(w) == wlines'[w] = wlines[w] + 1

\* the work function of worker w returns in this step
ActionReturns(w) == wpc[w] = "work" /\ wpc'[w] = "SetError"

ErrRepositoryNotExists == "repository does not exist"
ErrPermission == "permission denied"

\* the entry a task's LocalPath names
Target(t) == CHOOSE e \in Entries \ {ScanRoot} : Join(EntryPath(e)) = tasks[t].LocalPath

\* an entry and all that it holds
Subtree(e) == {e} \cup {x \in Entries \ {ScanRoot} : e \in Ancestors(x)}

\* git.PlainOpen(localPath) returns no error: localPath is the root of a working
\* copy (a working copy above it is not looked for)
PlainOpens(e) == e \notin removed /\ fsKind[e] \in WorkingCopies

\* a directory os.RemoveAll cannot empty
Stuck(x) == fsKind[x] = "locked" /\ Children(x) # <<>>

\* what os.RemoveAll(e) removes
Removable(e) ==
  {x \in Subtree(e) : \A y \in Subtree(e) :
     Stuck(y) => /\ y \notin Subtree(x)
                 /\ x \notin Subtree(y)}

\* the workers of the runs that delete
DeleteWorkers == 1

InitDelete ==
  /\ variant = "gls"
  /\ localPath = "/home/u/Projects"
  /\ mainErr = NilPtr
  /\ confirm = <<>>
  /\ numWorkers = DeleteWorkers
  /\ mpc = "createTasks"
  /\ NoTasks
  /\ PoolIdle
  /\ WalkIdle
  /\ fsParent \in FsTrees
  /\ fsKind \in FsKinds(fsParent)
  /\ fsKind[ScanRoot] = "dir"
  /\ pending = <<>> /\ scanPc = "none" /\ scanDir = ScanRoot
  /\ scanProjects = <<>> /\ scanErr = NilPtr /\ calls = <<>>
  /\ gitlabProjects = <<>>
  /\ \E e \in Entries \ {ScanRoot} : localProjects = <<FoundProject(e)>>
  /\ LineIdle
  /\ DeleteIdle
  /\ RenderIdle

\* DeleteProject without the test that the path opens as a working copy
DeleteProjectUnchecked(w) ==
  /\ wpc[w] = "work"
  /\ tasks[wtask[w]].Action = Delete
  /\ LET e == Target(wtask[w])
         err == IF Subtree(e) \subseteq removed \cup Removable(e) THEN Nil ELSE ErrPermission
     IN /\ removed' = removed \cup Removable(e)
        /\ wret' = [wret EXCEPT ![w] = err]
        /\ returned' = [returned EXCEPT ![wtask[w]] = err]
  /\ wpc' = [wpc EXCEPT ![w] = "SetError"]
  /\ UNCHANGED <<inputsAndTasks, taskState, mpc, spawned, loaded, taskQueue, closed, wg,
                 wtask, wlines, dequeued, invoked, errWrites, wasProgressing, report>>
  /\ UNCHANGED <<walkVars, scanVars, besideDelete>>

\* work(task) of a Delete task: git.DeleteProject(task.LocalPath)
DeleteProject(w) ==
  /\ wpc[w] = "work"
  /\ tasks[wtask[w]].Action = Delete
  /\ LET e == Target(wtask[w])
         err == IF ~PlainOpens(e) THEN ErrRepositoryNotExists
                ELSE IF Subtree(e) \subseteq removed \cup Removable(e) THEN Nil
                ELSE ErrPermission
     IN /\ removed' = IF PlainOpens(e) THEN removed \cup Removable(e) ELSE removed
        /\ wret' = [wret EXCEPT ![w] = err]
        /\ returned' = [returned EXCEPT ![wtask[w]] = err]
  /\ wpc' = [wpc EXCEPT ![w] = "SetError"]
  /\ UNCHANGED <<inputsAndTasks, taskState, mpc, spawned, loaded, taskQueue, closed, wg,
                 wtask, wlines, dequeued, invoked, errWrites, wasProgressing, report>>
  /\ UNCHANGED <<walkVars, scanVars, besideDelete>>

DeleteWorker(w) ==
  \/ Recv(w)
  \/ WorkerExit(w)
  \/ SetProgressing(w)
  \/ DeleteProject(w)
  \/ SetError(w)
  \/ SetCompleted(w)

NextDelete ==
  \/ CreateTasks
  \/ FilterOpen
  \/ SpawnWorker
  \/ LoadTask
  \/ CloseQueue
  \/ WaitReturns
  \/ Report
  \/ \E w \in Workers : DeleteWorker(w)

SpecDelete == InitDelete /\ [][NextDelete]_vars

\* RunTasks has returned
RunTasksReturned == mpc \in {"report", "exit"}

NoListingRequest ==
  /\ \A g \in Groups : ppc[g] = "none" /\ spc[g] = "none"
  /\ \A g \in Groups : plist[g] = <<>> /\ slist[g] = <<>>
  /\ failedP = {} /\ failedS = {}
  /\ pwg = 0

\* C27: when the lookup of the root group fails, or finds no group whose full path
\* is the requested one, GetActiveGitlabProjects returns no project and exactly
\* one error, no listing of projects or subgroups has been requested and the
\* visitor has not been called.
C27_LookupFailureReturnsOneError ==
  gpc = "returned early" =>
    /\ ret # NilPtr
    /\ Deref(ret).result = <<>>
    /\ Len(Deref(ret).errors) = 1
    /\ Deref(ret).errors[1].request \in {"error", "nil"}
    /\ NoListingRequest
    /\ visited = <<>>
    /\ resChan = "none" /\ errChan = "none"

\* the search found groups, none with the requested full path, and the call has
\* returned
C27_Witness ==
  /\ gpc = "returned early"
  /\ ret # NilPtr
  /\ Deref(ret).errors[1].request = "nil"


(***************************************************************************)
(* The renderer of the gls variant: a goroutine started before RunTasks    *)
(* that calls FilterTasks(tasks, gls.Progressing) every 200 ms.            *)
(* FilterTasks loads the status of one task after another while the        *)
(* workers go on storing statuses.                                         *)
(***************************************************************************)
InitRender ==
  /\ variant = "gls"
  /\ localPath = "/home/u/Projects"
  /\ \E in \in {ScenarioRemote} \X ScenarioLocal :
       gitlabProjects = in[1] /\ localProjects = in[2]
  /\ mainErr = NilPtr
  /\ confirm = <<>>
  /\ numWorkers \in 1..MaxWorkers
  /\ mpc = "createTasks"
  /\ NoTasks
  /\ PoolIdle
  /\ WalkIdle
  /\ SideIdle

\* the renderer goroutine exists: go renderer(tasks) is past and main has not
\* returned
Rendering == mpc \in {"RunTasks", "report"}

\* progressingTasks := gls.FilterTasks(tasks, gls.Progressing) is called
RendererCalls ==
  /\ Rendering
  /\ renderIdx = 0
  /\ renderIdx' = 1
  /\ progressingTasks' = <<>>
  /\ UNCHANGED <<pipeVars, walkVars, besideRender>>

\* one round of the loop of FilterTasks: if task.GetStatus() == status { append }
RendererReads ==
  /\ Rendering
  /\ renderIdx \in TaskIds
  /\ progressingTasks' = IF status[renderIdx] = Progressing
                         THEN Append(progressingTasks, renderIdx)
                         ELSE progressingTasks
  /\ renderIdx' = renderIdx + 1
  /\ UNCHANGED <<pipeVars, walkVars, besideRender>>

\* FilterTasks returns result, the table is printed and the renderer sleeps
RendererPrints ==
  /\ Rendering
  /\ renderIdx = Len(tasks) + 1
  /\ renderIdx' = 0
  /\ progressingTasks' = <<>>
  /\ UNCHANGED <<pipeVars, walkVars, besideRender>>

NextRender ==
  \/ Next
  \/ RendererCalls
  \/ RendererReads
  \/ RendererPrints

SpecRender == InitRender /\ [][NextRender]_vars

\* C28 as stated: every result of FilterTasks(tasks, Progressing) that the
\* renderer computes while RunTasks runs holds at most numWorkers tasks.
C28_AsStated ==
  renderIdx = Len(tasks) + 1 => Len(progressingTasks) <= numWorkers

\* at every instant at most numWorkers tasks have the status Progressing
C28_AtAnInstant ==
  Cardinality({t \in TaskIds : status[t] = Progressing}) <= numWorkers


(***************************************************************************)
(* Properties of a pool without workers, checked under SpecBoth.           *)
(***************************************************************************)
\* RunTasks or executeTasks has returned
PoolLeft == mpc \in {"report", "exit", "cmd.report", "cmd.exit"}

\* the task is as it was created
AsCreated(t) ==
  /\ status[t] = initial[t].status
  /\ message[t] = initial[t].message
  /\ error[t] = initial[t].error
  /\ variant = "cmd" => tracker[t] = NewTracker

\* C29: with a worker count of zero or less the pool starts no worker: no task is
\* received from the queue, the work function is called for no task, and every
\* task keeps the status, message and error it was created with, until and after
\* the pool has returned.
C29_NoWorkersNoWork ==
  numWorkers <= 0 =>
    /\ spawned = 0
    /\ \A w \in Workers : wpc[w] = "none"
    /\ \A t \in TaskIds :
         /\ dequeued[t] = 0
         /\ invoked[t] = 0
         /\ returned[t] = "none"
         /\ AsCreated(t)

\* the pool was given tasks and no worker, and has returned with the tasks loaded
\* and still Open
C29_Witness ==
  /\ numWorkers <= 0
  /\ PoolLeft
  /\ Len(openTasks) > 0
  /\ loaded = Len(openTasks)
  /\ \A i \in DOMAIN openTasks : AsCreated(openTasks[i])
  /\ variant = "gls" => \A i \in DOMAIN openTasks : status[openTasks[i]] = Open


(***************************************************************************)
(* Properties of the pairs createTasks of cmd/main.go ranges over, checked *)
(* under SpecCreate.                                                       *)
(***************************************************************************)
\* pairProjects(gitlabProjects, localProjects) of the run
ProjectPairs == pairProjects(gitlabProjects, localProjects)

\* the sides of a pair that are there
Sides(projectPair) ==
  {side \in {"GitlabProject", "LocalProject"} : projectPair[side] # NilPtr}

\* C30: every pair of the map has a remote side, a local side or both, and for
\* each of them, whatever the user answers, the first loop of createTasks makes a
\* task that is not nil; once createTasks has returned there is one task per pair,
\* with an action and with the branch of a side that the pair has.
C30_EveryPairATask ==
  variant = "cmd" =>
    /\ \A key \in DOMAIN ProjectPairs :
         /\ Sides(ProjectPairs[key]) # {}
         /\ \A answer \in BOOLEAN :
              internalTask(key, ProjectPairs[key], answer) # NilPtr
    /\ Created =>
         /\ Len(tasks) = Cardinality(DOMAIN ProjectPairs)
         /\ \A t \in TaskIds :
              /\ tasks[t].Key \in DOMAIN ProjectPairs
              /\ tasks[t].Action \in {Clone, Pull, Delete}
              /\ \E side \in Sides(ProjectPairs[tasks[t].Key]) :
                   tasks[t].Branch \in
                     {Deref(ProjectPairs[tasks[t].Key][side])[f] : f \in {"Branch", "DefaultBranch"}
                        \cap DOMAIN Deref(ProjectPairs[tasks[t].Key][side])}

\* createTasks of cmd/main.go has returned the tasks of a pair with both sides and
\* of a pair with a local side only, whose deletion the user declined
C30_Witness ==
  /\ variant = "cmd"
  /\ Created
  /\ \E t, u \in TaskIds :
       /\ Sides(ProjectPairs[tasks[t].Key]) = {"GitlabProject", "LocalProject"}
       /\ Sides(ProjectPairs[tasks[u].Key]) = {"LocalProject"}
       /\ tasks[u].Skipped


(***************************************************************************)
(* Termination of GetActiveGitlabProjects.  Every listing request ends,    *)
(* with an error or without, and the Go scheduler lets a goroutine that    *)
(* can take a step take one: weak fairness of the walker's steps.  The     *)
(* runs are those over the chain below the root, the deepest tree; over    *)
(* all trees WalkNeitherBlocksNorLoops says the same by its parts.         *)
(***************************************************************************)
InitWalkLive == InitWalk /\ parent \in MainTrees

SpecWalkLive == InitWalkLive /\ [][NextWalk]_vars /\ WF_vars(NextWalk)

\* GetActiveGitlabProjects has returned
WalkEnded == gpc \in {"returned", "returned early"}

\* the goroutines of listProjectsRecursively that have been started and have not
\* ended
Producers ==
  {<<g, "projects">> : g \in {h \in Groups : ppc[h] \notin {"none", "done"}}}
    \cup {<<g, "subgroups">> : g \in {h \in Groups : spc[h] \notin {"none", "done"}}}

\* the counter of pwg counts the producers: it is not zero while one of them has
\* a request, a send or a recursive call ahead
CounterHoldsProducers == pwg = Cardinality(Producers)

\* the closing goroutine is past pwg.Wait() only when every producer has ended, so
\* no producer sends on a closed channel
ClosedAfterProducers ==
  (closer \notin {"none", "pwg.Wait"} \/ resChan = "closed" \/ errChan = "closed")
    => Producers = {}

ProjectsAhead(g) ==
  CASE ppc[g] = "none" -> 5
    [] ppc[g] = "ListGroupProjects" -> 4
    [] ppc[g] = "errChan <-" -> 3
    [] ppc[g] = "resChan <-" -> Len(plist[g])
    [] OTHER -> 0
SubGroupsAhead(g) ==
  CASE spc[g] = "none" -> MaxGroup + 4
    [] spc[g] = "ListSubGroups" -> MaxGroup + 3
    [] spc[g] = "errChan <-" -> MaxGroup + 2
    [] spc[g] = "listProjectsRecursively" -> Len(slist[g])
    [] OTHER -> 0
CallerAhead ==
  CASE gpc = "getGroupByPath" -> 4
    [] gpc = "listProjectsRecursively" -> 3
    [] gpc = "go" -> 2
    [] gpc = "cwg.Wait" -> 1
    [] OTHER -> 0
CloserAhead ==
  CASE closer = "none" -> 4
    [] closer = "pwg.Wait" -> 3
    [] closer = "close(resChan)" -> 2
    [] closer = "close(errChan)" -> 1
    [] OTHER -> 0
CollectorAhead(c) ==
  CASE c = "none" -> 2
    [] c = "range resChan" -> 1
    [] c = "range errChan" -> 1
    [] OTHER -> 0

RECURSIVE SumAhead(_)
SumAhead(gs) ==
  IF gs = {} THEN 0
  ELSE LET g == CHOOSE h \in gs : TRUE
       IN ProjectsAhead(g) + SubGroupsAhead(g) + SumAhead(gs \ {g})

\* the steps the whole call has ahead at most
StepsAhead ==
  CallerAhead + CloserAhead + CollectorAhead(resCollector) + CollectorAhead(errCollector)
    + SumAhead(Groups)

\* no goroutine waits for ever: until the call has returned, one of them can take
\* a step
SomeoneCanStep == WalkEnded \/ ENABLED NextWalk

\* termination by its parts, under SpecWalk: the counter and the closing are as
\* above, some goroutine can take a step in every state before the return, and
\* every step leaves fewer steps ahead, so that no behaviour goes on for ever.
WalkNeitherBlocksNorLoops ==
  /\ [](CounterHoldsProducers /\ ClosedAfterProducers /\ SomeoneCanStep)
  /\ [][StepsAhead' < StepsAhead]_vars


(***************************************************************************)
(* Properties of the visitor callback, checked under SpecWalk.             *)
(***************************************************************************)
\* listProjectsRecursively has been entered for g: its goroutines exist
Entered(g) == ppc[g] # "none" \/ spc[g] # "none"

\* a listing request of g has been issued
Requested(g) ==
  \/ ppc[g] \notin {"none", "ListGroupProjects"}
  \/ spc[g] \notin {"none", "ListSubGroups"}
  \/ g \in Failing

\* C32: the visitor is called at most once for a group, it has been called for
\* every group whose walk has been entered, before any listing request of that
\* group, it is never called for a group below a failed subgroup listing, and when
\* the walk has returned it has been called exactly once for the root and for
\* every group that successful subgroup listings lead to.
C32_VisitorOncePerGroup ==
  /\ \A g \in Groups : Count(visited, g) <= 1
  /\ \A g \in Groups : (Entered(g) \/ Requested(g)) => Count(visited, g) = 1
  /\ \A i \in DOMAIN visited :
       visited[i] # RootGroup =>
         /\ ~CutOff(visited[i])
         /\ \E j \in 1..(i - 1) : visited[j] = parent[visited[i]]
         /\ spc[parent[visited[i]]] \in {"listProjectsRecursively", "done"}
  /\ WalkReturned =>
       \A g \in Groups : Count(visited, g) = IF CutOff(g) THEN 0 ELSE 1

\* the walk has returned from a tree in which a subgroup listing below the root
\* failed: the visitor was called for the root and the group, not for what lies
\* below it
C32_Witness ==
  /\ WalkReturned
  /\ \E g \in Groups \ {RootGroup} :
       /\ g \in failedS
       /\ Count(visited, g) = 1
       /\ \E h \in Groups \ {RootGroup} : parent[h] = g /\ Count(visited, h) = 0
  /\ Count(visited, RootGroup) = 1


(***************************************************************************)
(* Termination of the pool.  Every call of the work function returns, and  *)
(* the Go scheduler lets a goroutine that can take a step take one: weak   *)
(* fairness of the steps of main and the workers.  The runs are those of   *)
(* both main packages with at least one worker, over no projects at all    *)
(* and over two remote projects without local copy, which make two tasks  *)
(* to run.                                                                 *)
(***************************************************************************)
LiveInputs ==
  {<<<<>>, <<>>>>,
   <<<<GitlabProject("teamA/svc1", "main"), GitlabProject("teamA/old", "main")>>, <<>>>>}

InitPoolLive ==
  /\ Init \/ InitExec
  /\ numWorkers >= 1
  /\ <<gitlabProjects, localProjects>> \in LiveInputs

SpecPoolLive == InitPoolLive /\ [][NextBoth]_vars /\ WF_vars(NextBoth)

\* main is in the loop that loads the queue and has a task left to send
Loading ==
  /\ mpc \in {"RunTasks", "executeTasks"}
  /\ spawned >= numWorkers
  /\ loaded < Len(openTasks)

\* the send taskQueue <- task can happen at once
SendDoesNotBlock == ENABLED (LoadTask \/ CmdLoadTask)

\* C33: with one worker or more and a work function that always returns, the send
\* that loads the queue never has to wait, every worker has ended when the pool
\* returns, and the pool eventually returns, whether the list is empty or holds
\* more tasks than there are workers.
C33_PoolTerminates ==
  /\ [](Loading => SendDoesNotBlock)
  /\ [](PoolLeft => /\ taskQueue = <<>>
                    /\ \A w \in 1..numWorkers : wpc[w] \in {"exit", "cmd.exit"})
  /\ <>PoolLeft

\* the pool has returned from a run with more tasks than workers, every one of
\* them received
C33_Witness ==
  /\ PoolLeft
  /\ numWorkers >= 1
  /\ Len(openTasks) > numWorkers
  /\ \A i \in DOMAIN openTasks : dequeued[openTasks[i]] = 1
  /\ \A w \in 1..numWorkers : wpc[w] \in {"exit", "cmd.exit"}

====
